---- MODULE Spec2Model ----
(***************************************************************************)
(* A model of the pfx crate: PrefixTreeMap, a map from byte strings to     *)
(* values stored in a prefix tree (src/src/map.rs).                        *)
(*                                                                         *)
(* A Node is the record [item, key_fragment, children]; children is the    *)
(* Vec of child nodes.  Option<T> is a sequence of length 0 (None) or      *)
(* 1 (Some).  A `&mut Node` obtained by descending from the root is the    *)
(* sequence of child indices leading to it.  A key object (a K, or a Q     *)
(* passed to a lookup) is the record [bytes, id]: `bytes` is what          *)
(* `key.as_ref()` returns, `id` tells apart objects with the same bytes.   *)
(***************************************************************************)
EXTENDS Integers, Sequences, FiniteSets, TLC

\* Bounds of the explored universe.
MaxByte == 1
MaxKeyLen == 2
MaxVal == 2
MaxOther == 2
MaxLen == 3
MaxId == 1

Bytes == 0..MaxByte
Values == 1..MaxVal

RECURSIVE KeysUpTo(_)
KeysUpTo(n) ==
    IF n = 0 THEN {<<>>}
    ELSE LET S == KeysUpTo(n - 1)
         IN S \cup {Append(s, b) : s \in {t \in S : Len(t) = n - 1}, b \in Bytes}

\* A key object, and AsRef<[u8]>::as_ref on it.
Key(bytes, id) == [bytes |-> bytes, id |-> id]
as_ref(key) == key.bytes

Keys == {Key(b, 0) : b \in KeysUpTo(MaxKeyLen)}

\* Every byte string up to one byte longer than the longest key (prefixes to query).
Prefixes == {Key(b, 0) : b \in KeysUpTo(MaxKeyLen + 1)}

\* Key objects, several for the same bytes.
KeyObjects == {Key(b, id) : b \in KeysUpTo(MaxKeyLen), id \in 0..MaxId}

Pairs == {<<k, v>> : k \in Keys, v \in Values}

\* Option<T>
None == <<>>
Some(x) == <<x>>
IsSome(o) == Len(o) > 0
IsNone(o) == Len(o) = 0

(***************************************************************************)
(* Node                                                                    *)
(***************************************************************************)
with_key_fragment(key_fragment) ==
    [item |-> None, key_fragment |-> key_fragment, children |-> <<>>]

NodeRoot == with_key_fragment(0)

\* slice::binary_search_by_key over the children, keyed by key_fragment:
\* [ok |-> TRUE, index |-> i] for Ok(i), [ok |-> FALSE, index |-> i] for Err(i).
\* Indices are 1-based here.
RECURSIVE binary_search_from(_, _, _, _)
binary_search_from(children, byte, left, right) ==
    IF left >= right THEN [ok |-> FALSE, index |-> left]
    ELSE LET mid == left + ((right - left) \div 2)
             kf == children[mid].key_fragment
         IN IF kf < byte THEN binary_search_from(children, byte, mid + 1, right)
            ELSE IF kf > byte THEN binary_search_from(children, byte, left, mid)
            ELSE [ok |-> TRUE, index |-> mid]

binary_search_by_key(children, byte) ==
    binary_search_from(children, byte, 1, Len(children) + 1)

\* Vec::push in place of Vec::insert: the new element goes to the end.
VecInsert_push(vec, index, element) == Append(vec, element)

\* Vec::insert putting the new element in front whatever the index.
VecInsert_at_front(vec, index, element) == <<element>> \o vec

\* Vec::insert(index, element)
VecInsert(vec, index, element) ==
    SubSeq(vec, 1, index - 1) \o <<element>> \o SubSeq(vec, index, Len(vec))

\* Node::search: Some(node reached by the bytes) or None.
RECURSIVE search(_, _)
\* search taking a key byte equal to the node's own key_fragment as a match
\* of the node itself.
search_matches_own_fragment(node, bytes) ==
    IF bytes = <<>> THEN Some(node)
    ELSE IF Head(bytes) = node.key_fragment /\ Tail(bytes) = <<>> THEN Some(node)
    ELSE LET r == binary_search_by_key(node.children, Head(bytes))
         IN IF ~r.ok THEN None
            ELSE search(node.children[r.index], Tail(bytes))

search(node, bytes) ==
    IF bytes = <<>> THEN Some(node)
    ELSE LET r == binary_search_by_key(node.children, Head(bytes))
         IN IF ~r.ok THEN None
            ELSE search(node.children[r.index], Tail(bytes))

\* Node::search_mut: Some(reference to the node reached) or None.
RECURSIVE search_mut(_, _)
search_mut(node, bytes) ==
    IF bytes = <<>> THEN Some(<<>>)
    ELSE LET r == binary_search_by_key(node.children, Head(bytes))
         IN IF ~r.ok THEN None
            ELSE LET sub == search_mut(node.children[r.index], Tail(bytes))
                 IN IF IsNone(sub) THEN None
                    ELSE Some(<<r.index>> \o sub[1])

\* The node a reference points to.
RECURSIVE Deref(_, _)
Deref(node, ref) ==
    IF ref = <<>> THEN node ELSE Deref(node.children[Head(ref)], Tail(ref))

\* Writing `item` into the slot of the node a reference points to.
RECURSIVE WriteSlot(_, _, _)
WriteSlot(node, ref, item) ==
    IF ref = <<>> THEN [node EXCEPT !.item = item]
    ELSE [node EXCEPT !.children[Head(ref)] = WriteSlot(@, Tail(ref), item)]

\* Node::search_or_insert: the tree with the path realised, and the reference
\* to the node reached.
RECURSIVE search_or_insert(_, _)
\* search_or_insert inserting a new child whether or not the search found one.
search_or_insert_always_inserts(node, bytes) ==
    IF bytes = <<>> THEN [node |-> node, ref |-> <<>>]
    ELSE LET byte == Head(bytes)
             r == binary_search_by_key(node.children, byte)
             children == VecInsert(node.children, r.index, with_key_fragment(byte))
             sub == search_or_insert(children[r.index], Tail(bytes))
         IN [node |-> [node EXCEPT !.children = [children EXCEPT ![r.index] = sub.node]],
             ref |-> <<r.index>> \o sub.ref]

search_or_insert(node, bytes) ==
    IF bytes = <<>> THEN [node |-> node, ref |-> <<>>]
    ELSE LET byte == Head(bytes)
             r == binary_search_by_key(node.children, byte)
             children == IF r.ok THEN node.children
                         ELSE VecInsert(node.children, r.index, with_key_fragment(byte))
             sub == search_or_insert(children[r.index], Tail(bytes))
         IN [node |-> [node EXCEPT !.children = [children EXCEPT ![r.index] = sub.node]],
             ref |-> <<r.index>> \o sub.ref]

\* Node::compact: the compacted node and whether it is useful.
\* retain_mut_compact is the `self.children.retain_mut(..)` loop of compact.
RECURSIVE compact(_), retain_mut_compact(_)
\* The retain_mut loop keeping every child that had children of its own before
\* it was compacted.
retain_mut_keeps_parents(children) ==
    IF children = <<>> THEN [children |-> <<>>, has_useful_children |-> FALSE]
    ELSE LET child == compact(Head(children))
             keep == child.is_useful \/ Head(children).children # <<>>
             rest == retain_mut_compact(Tail(children))
         IN [children |-> IF keep THEN <<child.node>> \o rest.children
                          ELSE rest.children,
             has_useful_children |-> keep \/ rest.has_useful_children]

\* The retain_mut loop deciding by the compacted child and keeping the child
\* as it was before its own compaction.
retain_mut_shallow(children) ==
    IF children = <<>> THEN [children |-> <<>>, has_useful_children |-> FALSE]
    ELSE LET child == compact(Head(children))
             rest == retain_mut_compact(Tail(children))
         IN [children |-> IF child.is_useful THEN <<Head(children)>> \o rest.children
                          ELSE rest.children,
             has_useful_children |-> child.is_useful \/ rest.has_useful_children]

retain_mut_compact(children) ==
    IF children = <<>> THEN [children |-> <<>>, has_useful_children |-> FALSE]
    ELSE LET child == compact(Head(children))
             rest == retain_mut_compact(Tail(children))
         IN [children |-> IF child.is_useful THEN <<child.node>> \o rest.children
                          ELSE rest.children,
             has_useful_children |-> child.is_useful \/ rest.has_useful_children]

\* Node::compact deciding usefulness by the node's own item alone.
compact_item_only(node) ==
    LET kept == retain_mut_compact(node.children)
    IN [node |-> [node EXCEPT !.children = kept.children],
        is_useful |-> IsSome(node.item)]

compact(node) ==
    LET kept == retain_mut_compact(node.children)
    IN [node |-> [node EXCEPT !.children = kept.children],
        is_useful |-> kept.has_useful_children \/ IsSome(node.item)]

(***************************************************************************)
(* NodeIter: the borrowing subtree iterator                                *)
(***************************************************************************)
\* Node::iter
RECURSIVE Node_iter(_)
\* Node::iter leaving the first child in children_iter after taking it as the
\* current child.
Node_iter_keeps_first(node) ==
    [item |-> node.item,
     children_iter |-> node.children,
     curr_child_iter |-> IF node.children = <<>> THEN None
                         ELSE Some(Node_iter(Head(node.children)))]

Node_iter(node) ==
    [item |-> node.item,
     children_iter |-> IF node.children = <<>> THEN <<>> ELSE Tail(node.children),
     curr_child_iter |-> IF node.children = <<>> THEN None
                         ELSE Some(Node_iter(Head(node.children)))]

\* The exhausted iterator prefix_iter returns when the prefix has no node.
EmptyNodeIter == [item |-> None, children_iter |-> <<>>, curr_child_iter |-> None]

\* NodeIter::next: the iterator after the call and what the call returned.
RECURSIVE NodeIter_next(_)
NodeIter_next(it) ==
    IF IsSome(it.item) THEN [iter |-> [it EXCEPT !.item = None], ret |-> it.item]
    ELSE LET sub == IF IsSome(it.curr_child_iter) THEN NodeIter_next(it.curr_child_iter[1])
                    ELSE [iter |-> EmptyNodeIter, ret |-> None]
             it1 == IF IsSome(it.curr_child_iter)
                    THEN [it EXCEPT !.curr_child_iter = Some(sub.iter)]
                    ELSE it
         IN IF IsSome(sub.ret) THEN [iter |-> it1, ret |-> sub.ret]
            ELSE IF it1.children_iter = <<>> THEN [iter |-> it1, ret |-> None]
            ELSE NodeIter_next([it1 EXCEPT
                                  !.children_iter = Tail(@),
                                  !.curr_child_iter = Some(Node_iter(Head(it1.children_iter)))])

\* Driving an iterator to exhaustion (`collect`): the sequence of items yielded.
RECURSIVE Collect(_)
Collect(it) ==
    LET r == NodeIter_next(it)
    IN IF IsNone(r.ret) THEN <<>> ELSE <<r.ret[1]>> \o Collect(r.iter)

(***************************************************************************)
(* PrefixTreeMap: [root, len]                                              *)
(***************************************************************************)
new == [root |-> NodeRoot, len |-> 0]

get_entry(m, key) ==
    LET n == search(m.root, as_ref(key)) IN IF IsNone(n) THEN None ELSE n[1].item

get(m, key) ==
    LET n == search(m.root, as_ref(key))
    IN IF IsNone(n) \/ IsNone(n[1].item) THEN None ELSE Some(n[1].item[1][2])

\* contains_key answering for the node instead of for its item.
contains_key_of_node(m, key) == IsSome(search(m.root, as_ref(key)))

contains_key(m, key) ==
    LET n == search(m.root, as_ref(key)) IN IsSome(n) /\ IsSome(n[1].item)

\* remove_entry reading the slot without taking the item out of it.
remove_entry_without_take(m, key) ==
    LET ref == search_mut(m.root, as_ref(key))
    IN IF IsNone(ref) THEN [map |-> m, ret |-> None]
       ELSE LET item == Deref(m.root, ref[1]).item
            IN IF IsNone(item) THEN [map |-> m, ret |-> None]
               ELSE [map |-> [m EXCEPT !.len = m.len - 1], ret |-> item]

\* remove_entry pruning the nodes the removal made useless.
remove_entry_prunes(m, key) ==
    LET ref == search_mut(m.root, as_ref(key))
    IN IF IsNone(ref) THEN [map |-> m, ret |-> None]
       ELSE LET item == Deref(m.root, ref[1]).item
            IN IF IsNone(item) THEN [map |-> m, ret |-> None]
               ELSE [map |-> [root |-> compact(WriteSlot(m.root, ref[1], None)).node,
                              len |-> m.len - 1],
                     ret |-> item]

\* remove_entry walking to the key the way entry does, creating the nodes the
\* key's path lacks.
remove_entry_creates_path(m, key) ==
    LET s == search_or_insert(m.root, as_ref(key))
        item == Deref(s.node, s.ref).item
    IN IF IsNone(item) THEN [map |-> [m EXCEPT !.root = s.node], ret |-> None]
       ELSE [map |-> [root |-> WriteSlot(s.node, s.ref, None), len |-> m.len - 1],
             ret |-> item]

remove_entry(m, key) ==
    LET ref == search_mut(m.root, as_ref(key))
    IN IF IsNone(ref) THEN [map |-> m, ret |-> None]
       ELSE LET item == Deref(m.root, ref[1]).item
            IN IF IsNone(item) THEN [map |-> m, ret |-> None]
               ELSE [map |-> [root |-> WriteSlot(m.root, ref[1], None), len |-> m.len - 1],
                     ret |-> item]

remove(m, key) ==
    LET r == remove_entry(m, key)
    IN [map |-> r.map, ret |-> IF IsNone(r.ret) THEN None ELSE Some(r.ret[1][2])]

\* Index: `self.get(key).expect(..)`, which panics when get returns None.
\* index without the expect: an absent key comes back as an absent result.
index_without_expect(m, key) == [panic |-> FALSE, ret |-> get(m, key)]

index(m, key) ==
    LET r == get(m, key) IN [panic |-> IsNone(r), ret |-> r]

\* `.expect("item in occupied entry")` in the methods of OccupiedEntry: they
\* panic when the slot of the entry holds no item.
OccupiedEntry_expect_panics(m, e) == IsNone(Deref(m.root, e.slot).item)

\* PrefixTreeMap::iter: the whole-tree iterator Iter, [iter, len].
iter(m) == [iter |-> Node_iter(m.root), len |-> m.len]

\* Iter::next leaving len as it was.
Iter_next_keeps_len(it) ==
    LET r == NodeIter_next(it.iter)
    IN [iter |-> [it EXCEPT !.iter = r.iter], ret |-> r.ret]

\* Iter::next
Iter_next(it) ==
    LET r == NodeIter_next(it.iter)
    IN IF IsNone(r.ret) THEN [iter |-> [it EXCEPT !.iter = r.iter], ret |-> None]
       ELSE [iter |-> [iter |-> r.iter, len |-> it.len - 1], ret |-> r.ret]

\* Driving an Iter to exhaustion: the sequence of items yielded.
RECURSIVE CollectIter(_)
CollectIter(it) ==
    LET r == Iter_next(it)
    IN IF IsNone(r.ret) THEN <<>> ELSE <<r.ret[1]>> \o CollectIter(r.iter)

\* Node::into_iter: the owning subtree iterator NodeIntoIter.
RECURSIVE Node_into_iter(_)
\* Node::into_iter creating no sub-iterator until next() reaches the first
\* child.
Node_into_iter_lazy(node) ==
    [item |-> node.item, children_iter |-> node.children, curr_child_iter |-> None]

Node_into_iter(node) ==
    [item |-> node.item,
     children_iter |-> IF node.children = <<>> THEN <<>> ELSE Tail(node.children),
     curr_child_iter |-> IF node.children = <<>> THEN None
                         ELSE Some(Node_into_iter(Head(node.children)))]

\* NodeIntoIter::next
RECURSIVE NodeIntoIter_next(_)
NodeIntoIter_next(it) ==
    IF IsSome(it.item) THEN [iter |-> [it EXCEPT !.item = None], ret |-> it.item]
    ELSE LET sub == IF IsSome(it.curr_child_iter)
                    THEN NodeIntoIter_next(it.curr_child_iter[1])
                    ELSE [iter |-> EmptyNodeIter, ret |-> None]
             it1 == IF IsSome(it.curr_child_iter)
                    THEN [it EXCEPT !.curr_child_iter = Some(sub.iter)]
                    ELSE it
         IN IF IsSome(sub.ret) THEN [iter |-> it1, ret |-> sub.ret]
            ELSE IF it1.children_iter = <<>> THEN [iter |-> it1, ret |-> None]
            ELSE NodeIntoIter_next([it1 EXCEPT
                     !.children_iter = Tail(@),
                     !.curr_child_iter = Some(Node_into_iter(Head(it1.children_iter)))])

\* IntoIterator for PrefixTreeMap: the owning whole-tree iterator IntoIter.
into_iter(m) == [iter |-> Node_into_iter(m.root), len |-> m.len]

\* IntoIter::next decrementing len before it looks at what the subtree
\* iterator returned.
IntoIter_next_counts_every_call(it) ==
    LET r == NodeIntoIter_next(it.iter)
    IN [iter |-> [iter |-> r.iter, len |-> it.len - 1], ret |-> r.ret]

\* IntoIter::next
IntoIter_next(it) ==
    LET r == NodeIntoIter_next(it.iter)
    IN IF IsNone(r.ret) THEN [iter |-> [it EXCEPT !.iter = r.iter], ret |-> None]
       ELSE [iter |-> [iter |-> r.iter, len |-> it.len - 1], ret |-> r.ret]

\* ExactSizeIterator::len and Iterator::size_hint of Iter and of IntoIter
Iter_len(it) == it.len

Iter_size_hint(it) == <<it.len, Some(it.len)>>

IntoIter_len(it) == it.len

IntoIter_size_hint(it) == <<it.len, Some(it.len)>>

\* PrefixTreeMap::into_keys and IntoKeys::next
into_keys(m) == [iter |-> into_iter(m)]

IntoKeys_next(it) ==
    LET r == IntoIter_next(it.iter)
    IN [iter |-> [iter |-> r.iter],
        ret |-> IF IsNone(r.ret) THEN None ELSE Some(r.ret[1][1])]

\* PrefixTreeMap::keys and Keys::next
keys(m) == [iter |-> iter(m)]

Keys_next(it) ==
    LET r == Iter_next(it.iter)
    IN [iter |-> [iter |-> r.iter],
        ret |-> IF IsNone(r.ret) THEN None ELSE Some(r.ret[1][1])]

\* The exhausted iterator into_prefix_iter returns when the prefix has no node.
EmptyNodeIntoIter == [item |-> None, children_iter |-> <<>>, curr_child_iter |-> None]

\* into_prefix_iter losing the item of the node the prefix leads to.
into_prefix_iter_skips_item(m, prefix) ==
    LET ref == search_mut(m.root, as_ref(prefix))
    IN IF IsNone(ref) THEN EmptyNodeIntoIter
       ELSE [Node_into_iter(Deref(m.root, ref[1])) EXCEPT !.item = None]

\* PrefixTreeMap::into_prefix_iter: `mem::take(node).into_iter()` on the node
\* the prefix leads to.
into_prefix_iter(m, prefix) ==
    LET ref == search_mut(m.root, as_ref(prefix))
    IN IF IsNone(ref) THEN EmptyNodeIntoIter ELSE Node_into_iter(Deref(m.root, ref[1]))

\* Driving a NodeIntoIter to exhaustion: the sequence of items yielded.
RECURSIVE CollectInto(_)
CollectInto(it) ==
    LET r == NodeIntoIter_next(it)
    IN IF IsNone(r.ret) THEN <<>> ELSE <<r.ret[1]>> \o CollectInto(r.iter)

\* Driving an IntoIter to exhaustion: the sequence of items yielded.
RECURSIVE CollectIntoIter(_)
CollectIntoIter(it) ==
    LET r == IntoIter_next(it)
    IN IF IsNone(r.ret) THEN <<>> ELSE <<r.ret[1]>> \o CollectIntoIter(r.iter)

\* PrefixTreeMap::values / into_values and Values::next / IntoValues::next
values(m) == [iter |-> iter(m)]

Values_next(it) ==
    LET r == Iter_next(it.iter)
    IN [iter |-> [iter |-> r.iter],
        ret |-> IF IsNone(r.ret) THEN None ELSE Some(r.ret[1][2])]

into_values(m) == [iter |-> into_iter(m)]

IntoValues_next(it) ==
    LET r == IntoIter_next(it.iter)
    IN [iter |-> [iter |-> r.iter],
        ret |-> IF IsNone(r.ret) THEN None ELSE Some(r.ret[1][2])]

\* prefix_iter falling back to the whole tree when the prefix has no node.
prefix_iter_default_root(m, prefix) ==
    LET n == search(m.root, as_ref(prefix))
    IN IF IsNone(n) THEN Node_iter(m.root) ELSE Node_iter(n[1])

prefix_iter(m, prefix) ==
    LET n == search(m.root, as_ref(prefix))
    IN IF IsNone(n) THEN EmptyNodeIter ELSE Node_iter(n[1])

\* PrefixTreeMap::compact
map_compact(m) == [m EXCEPT !.root = compact(m.root).node]

\* entry counting the slot it hands out as an entry of the map already.
entry_counts_vacant(m, key) ==
    LET s == search_or_insert(m.root, as_ref(key))
        slot == Deref(s.node, s.ref).item
    IN IF IsSome(slot)
       THEN [map |-> [m EXCEPT !.root = s.node],
             entry |-> [kind |-> "Occupied", key |-> <<>>, slot |-> s.ref]]
       ELSE [map |-> [root |-> s.node, len |-> m.len + 1],
             entry |-> [kind |-> "Vacant", key |-> key, slot |-> s.ref]]

\* entry handing out the slot of the parent of the node the key leads to.
entry_slot_of_parent(m, key) ==
    LET s == search_or_insert(m.root, as_ref(key))
        ref == IF s.ref = <<>> THEN <<>> ELSE SubSeq(s.ref, 1, Len(s.ref) - 1)
        slot == Deref(s.node, ref).item
    IN [map |-> [m EXCEPT !.root = s.node],
        entry |-> IF IsSome(slot) THEN [kind |-> "Occupied", key |-> <<>>, slot |-> ref]
                  ELSE [kind |-> "Vacant", key |-> key, slot |-> ref]]

\* PrefixTreeMap::entry: the map with the key's path realised, and the entry
\* (Vacant with the key, or Occupied) holding the reference to the slot.
entry(m, key) ==
    LET s == search_or_insert(m.root, as_ref(key))
        slot == Deref(s.node, s.ref).item
    IN [map |-> [m EXCEPT !.root = s.node],
        entry |-> IF IsSome(slot) THEN [kind |-> "Occupied", key |-> <<>>, slot |-> s.ref]
                  ELSE [kind |-> "Vacant", key |-> key, slot |-> s.ref]]

\* VacantEntry::insert without `*self.len += 1`.
VacantEntry_insert_without_len(m, e, value) ==
    [m EXCEPT !.root = WriteSlot(m.root, e.slot, Some(<<e.key, value>>))]

\* VacantEntry::insert counting the entry without writing it into the slot.
VacantEntry_insert_keeps_slot(m, e, value) == [m EXCEPT !.len = m.len + 1]

VacantEntry_insert(m, e, value) ==
    [root |-> WriteSlot(m.root, e.slot, Some(<<e.key, value>>)), len |-> m.len + 1]

OccupiedEntry_get(m, e) == Deref(m.root, e.slot).item[1][2]

\* OccupiedEntry::insert handing back the value just stored instead of the
\* one it replaced.
OccupiedEntry_insert_returns_new(m, e, value) ==
    LET old == Deref(m.root, e.slot).item[1]
    IN [map |-> [m EXCEPT !.root = WriteSlot(m.root, e.slot, Some(<<old[1], value>>))],
        ret |-> value]

\* OccupiedEntry::insert taking the item out of the slot instead of replacing
\* its value.
OccupiedEntry_insert_takes_item(m, e, value) ==
    LET old == Deref(m.root, e.slot).item[1]
    IN [map |-> [m EXCEPT !.root = WriteSlot(m.root, e.slot, None)], ret |-> old[2]]

OccupiedEntry_insert(m, e, value) ==
    LET old == Deref(m.root, e.slot).item[1]
    IN [map |-> [m EXCEPT !.root = WriteSlot(m.root, e.slot, Some(<<old[1], value>>))],
        ret |-> old[2]]

OccupiedEntry_remove_entry(m, e) ==
    [map |-> [root |-> WriteSlot(m.root, e.slot, None), len |-> m.len - 1],
     ret |-> Deref(m.root, e.slot).item[1]]

\* insert storing the key it was given along with the value when the key is
\* already present.
insert_stores_new_key(m, key, value) ==
    LET e == entry(m, key)
    IN IF e.entry.kind = "Vacant"
       THEN [map |-> VacantEntry_insert(e.map, e.entry, value), ret |-> None]
       ELSE LET old == Deref(e.map.root, e.entry.slot).item[1]
            IN [map |-> [e.map EXCEPT !.root = WriteSlot(e.map.root, e.entry.slot,
                                                         Some(<<key, value>>))],
                ret |-> Some(old[2])]

insert(m, key, value) ==
    LET e == entry(m, key)
    IN IF e.entry.kind = "Vacant"
       THEN [map |-> VacantEntry_insert(e.map, e.entry, value), ret |-> None]
       ELSE LET r == OccupiedEntry_insert(e.map, e.entry, value)
            IN [map |-> r.map, ret |-> Some(r.ret)]

(***************************************************************************)
(* Entry methods.  Each takes the map the entry borrows and the entry.     *)
(***************************************************************************)
\* Entry::or_insert (through or_insert_with_key)
Entry_or_insert(m, e, value) ==
    IF e.kind = "Vacant" THEN VacantEntry_insert(m, e, value) ELSE m

\* The modifiers handed to and_modify: every function on the values.
Modifiers == [Values -> Values]

\* Entry::and_modify giving a vacant entry a value to modify: it stores
\* f(first value) and hands back an occupied entry.
Entry_and_modify_or_default(m, e, f) ==
    IF e.kind = "Occupied"
    THEN LET old == Deref(m.root, e.slot).item[1]
         IN [map |-> [m EXCEPT !.root = WriteSlot(m.root, e.slot, Some(<<old[1], f[old[2]]>>))],
             entry |-> e, calls |-> 1]
    ELSE [map |-> [root |-> WriteSlot(m.root, e.slot, Some(<<e.key, f[1]>>)),
                   len |-> m.len + 1],
          entry |-> [kind |-> "Occupied", key |-> <<>>, slot |-> e.slot], calls |-> 1]

\* Entry::and_modify with the modifier f: the map, the entry it returns, and
\* the number of times it called f.
Entry_and_modify(m, e, f) ==
    IF e.kind = "Occupied"
    THEN LET old == Deref(m.root, e.slot).item[1]
         IN [map |-> [m EXCEPT !.root = WriteSlot(m.root, e.slot, Some(<<old[1], f[old[2]]>>))],
             entry |-> e, calls |-> 1]
    ELSE [map |-> m, entry |-> e, calls |-> 0]

Entry_remove_entry(m, e) ==
    IF e.kind = "Occupied"
    THEN LET r == OccupiedEntry_remove_entry(m, e) IN [map |-> r.map, ret |-> Some(r.ret)]
    ELSE [map |-> m, ret |-> None]

Entry_remove(m, e) ==
    IF e.kind = "Occupied"
    THEN LET r == OccupiedEntry_remove_entry(m, e) IN [map |-> r.map, ret |-> Some(r.ret[2])]
    ELSE [map |-> m, ret |-> None]

(***************************************************************************)
(* #[derive(PartialEq, Eq, Hash)] on Node and PrefixTreeMap                *)
(***************************************************************************)
\* Node == Node: field by field, the children element by element.
RECURSIVE Node_eq(_, _)
Node_eq(a, b) ==
    /\ a.item = b.item
    /\ a.key_fragment = b.key_fragment
    /\ Len(a.children) = Len(b.children)
    /\ \A i \in 1..Len(a.children) : Node_eq(a.children[i], b.children[i])

\* PrefixTreeMap == PrefixTreeMap
eq(a, b) == Node_eq(a.root, b.root) /\ a.len = b.len

\* What Node::hash feeds the hasher, in order: the item (its discriminant,
\* then the key's length, bytes and id, and the value), the key_fragment, and the
\* children (their number, then each child).
RECURSIVE Node_hash(_), Children_hash(_)
Children_hash(children) ==
    IF children = <<>> THEN <<>>
    ELSE Node_hash(Head(children)) \o Children_hash(Tail(children))

Node_hash(node) ==
    (IF IsSome(node.item)
     THEN <<1, Len(as_ref(node.item[1][1]))>> \o as_ref(node.item[1][1])
          \o <<node.item[1][1].id, node.item[1][2]>>
     ELSE <<0>>)
    \o <<node.key_fragment, Len(node.children)>>
    \o Children_hash(node.children)

\* What PrefixTreeMap::hash feeds the hasher: the root, then len.
hash(m) == Node_hash(m.root) \o <<m.len>>

(***************************************************************************)
(* Operations over an incoming sequence `other`                            *)
(***************************************************************************)
RECURSIVE union_in_place(_, _)
\* union_in_place keeping the value self already holds for an incoming key.
union_in_place_keeps_existing(m, other) ==
    IF other = <<>> THEN m
    ELSE union_in_place(IF contains_key(m, Head(other)[1]) THEN m
                        ELSE insert(m, Head(other)[1], Head(other)[2]).map,
                        Tail(other))

union_in_place(m, other) ==
    IF other = <<>> THEN m
    ELSE union_in_place(insert(m, Head(other)[1], Head(other)[2]).map, Tail(other))

\* FromIterator / Extend
from_iter(items) == union_in_place(new, items)

\* The entries `filter_map(|key| self.remove_entry(&key))` yields, in order.
RECURSIVE removed_entries(_, _)
removed_entries(m, other) ==
    IF other = <<>> THEN <<>>
    ELSE LET r == remove_entry(m, Head(other))
         IN r.ret \o removed_entries(r.map, Tail(other))

\* intersection handing back what is left of self after the removals instead
\* of the removed entries.
intersection_returns_rest(m, other) ==
    LET Rest[i \in 0..Len(other)] ==
            IF i = 0 THEN m ELSE remove_entry(Rest[i - 1], other[i]).map
    IN Rest[Len(other)]

intersection(m, other) == from_iter(removed_entries(m, other))

RECURSIVE difference_in_place(_, _)
difference_in_place(m, other) ==
    IF other = <<>> THEN m
    ELSE difference_in_place(remove(m, Head(other)).map, Tail(other))

RECURSIVE symmetric_difference_in_place(_, _)
\* symmetric_difference_in_place leaving alone an incoming key self holds.
symmetric_difference_keeps_common(m, other) ==
    IF other = <<>> THEN m
    ELSE LET e == entry(m, Head(other)[1])
             m1 == IF e.entry.kind = "Occupied" THEN e.map
                   ELSE VacantEntry_insert(e.map, e.entry, Head(other)[2])
         IN symmetric_difference_in_place(m1, Tail(other))

symmetric_difference_in_place(m, other) ==
    IF other = <<>> THEN m
    ELSE LET e == entry(m, Head(other)[1])
             m1 == IF e.entry.kind = "Occupied"
                   THEN OccupiedEntry_remove_entry(e.map, e.entry).map
                   ELSE VacantEntry_insert(e.map, e.entry, Head(other)[2])
         IN symmetric_difference_in_place(m1, Tail(other))

(***************************************************************************)
(* PrefixTreeSet: [map], a PrefixTreeMap whose values are ()               *)
(***************************************************************************)
\* The value () of every entry of a set's map.
Unit == <<>>

Set_new == [map |-> new]

Set_contains(s, item) == contains_key(s.map, item)

Set_insert(s, key) ==
    LET r == insert(s.map, key, Unit) IN [set |-> [map |-> r.map], ret |-> IsNone(r.ret)]

Set_remove(s, key) ==
    LET r == remove(s.map, key) IN [set |-> [map |-> r.map], ret |-> IsSome(r.ret)]

Set_compact(s) == [map |-> map_compact(s.map)]

\* PrefixTreeSet::iter and set::Iter::next
Set_iter(s) == [keys |-> keys(s.map)]

SetIter_next(it) ==
    LET r == Keys_next(it.keys) IN [iter |-> [keys |-> r.iter], ret |-> r.ret]

\* IntoIterator for PrefixTreeSet and set::IntoIter::next
Set_into_iter(s) == [keys |-> into_keys(s.map)]

SetIntoIter_next(it) ==
    LET r == IntoKeys_next(it.keys) IN [iter |-> [keys |-> r.iter], ret |-> r.ret]

\* PrefixTreeMap::contains_prefix is called by PrefixTreeSet::contains_prefix
\* but its body is not part of the sources; it is modelled from the
\* specification: whether the subtree of the prefix's node holds an item.
RECURSIVE subtree_has_item(_)
subtree_has_item(node) ==
    IsSome(node.item) \/ \E i \in 1..Len(node.children) : subtree_has_item(node.children[i])

map_contains_prefix(m, prefix) ==
    LET n == search(m.root, as_ref(prefix)) IN IsSome(n) /\ subtree_has_item(n[1])

Set_contains_prefix(s, key) == map_contains_prefix(s.map, key)

\* PrefixTreeSet::prefix_iter walking the whole tree.
Set_prefix_iter_of_root(s, key) == [iter |-> Node_iter(s.map.root)]

\* PrefixTreeSet::prefix_iter and set::PrefixIter::next
Set_prefix_iter(s, key) == [iter |-> prefix_iter(s.map, key)]

SetPrefixIter_next(it) ==
    LET r == NodeIter_next(it.iter)
    IN [iter |-> [iter |-> r.iter],
        ret |-> IF IsNone(r.ret) THEN None ELSE Some(r.ret[1][1])]

\* PrefixTreeSet::into_prefix_iter and set::IntoPrefixIter::next
Set_into_prefix_iter(s, key) == [iter |-> into_prefix_iter(s.map, key)]

SetIntoPrefixIter_next(it) ==
    LET r == NodeIntoIter_next(it.iter)
    IN [iter |-> [iter |-> r.iter],
        ret |-> IF IsNone(r.ret) THEN None ELSE Some(r.ret[1][1])]

\* Driving a set's iterators to exhaustion: the elements yielded, in order.
RECURSIVE CollectSetIter(_)
CollectSetIter(it) ==
    LET r == SetIter_next(it)
    IN IF IsNone(r.ret) THEN <<>> ELSE <<r.ret[1]>> \o CollectSetIter(r.iter)

RECURSIVE CollectSetIntoIter(_)
CollectSetIntoIter(it) ==
    LET r == SetIntoIter_next(it)
    IN IF IsNone(r.ret) THEN <<>> ELSE <<r.ret[1]>> \o CollectSetIntoIter(r.iter)

\* `.map(|item| (item, ()))`
WithUnit(other) == [i \in 1..Len(other) |-> <<other[i], Unit>>]

Set_union_in_place(s, other) == [map |-> union_in_place(s.map, WithUnit(other))]

Set_union(s, other) == Set_union_in_place(s, other)

\* FromIterator / Extend for PrefixTreeSet
Set_from_iter(items) == Set_union_in_place(Set_new, items)

\* `.filter(|key| self.contains(key))`
RECURSIVE filter_contains(_, _)
filter_contains(s, other) ==
    IF other = <<>> THEN <<>>
    ELSE (IF Set_contains(s, Head(other)) THEN <<Head(other)>> ELSE <<>>)
         \o filter_contains(s, Tail(other))

\* intersection collecting `other` without the filter.
Set_intersection_unfiltered(s, other) == Set_from_iter(other)

Set_intersection(s, other) == Set_from_iter(filter_contains(s, other))

Set_difference_in_place(s, other) == [map |-> difference_in_place(s.map, other)]

Set_difference(s, other) == Set_difference_in_place(s, other)

Set_symmetric_difference_in_place(s, other) ==
    [map |-> symmetric_difference_in_place(s.map, WithUnit(other))]

Set_symmetric_difference(s, other) == Set_symmetric_difference_in_place(s, other)

\* The incoming sequences explored: up to MaxOther elements.
RECURSIVE SeqsUpTo(_, _)
SeqsUpTo(S, n) ==
    IF n = 0 THEN {<<>>}
    ELSE LET T == SeqsUpTo(S, n - 1)
         IN T \cup {Append(t, x) : t \in {u \in T : Len(u) = n - 1}, x \in S}

OtherKeys == SeqsUpTo(Keys, MaxOther)
OtherPairs == SeqsUpTo(Pairs, MaxOther)

(***************************************************************************)
(* Vocabulary of the properties                                            *)
(***************************************************************************)
\* Lexicographic order of byte strings: a proper prefix comes first.
RECURSIVE LexLess(_, _)
LexLess(a, b) ==
    IF b = <<>> THEN FALSE
    ELSE IF a = <<>> THEN TRUE
    ELSE IF Head(a) # Head(b) THEN Head(a) < Head(b)
    ELSE LexLess(Tail(a), Tail(b))

StartsWith(key, prefix) ==
    Len(prefix) <= Len(key) /\ SubSeq(key, 1, Len(prefix)) = prefix

IsProperPrefix(a, b) == Len(a) < Len(b) /\ StartsWith(b, a)

\* The same relations on key objects, through their bytes.
KeyLess(a, b) == LexLess(as_ref(a), as_ref(b))
KeyStartsWith(key, prefix) == StartsWith(as_ref(key), as_ref(prefix))
KeyIsProperPrefix(a, b) == IsProperPrefix(as_ref(a), as_ref(b))

Range(s) == {s[i] : i \in 1..Len(s)}

\* The items stored anywhere in the subtree.
RECURSIVE Items(_)
Items(node) ==
    Range(node.item) \cup UNION {Items(node.children[i]) : i \in 1..Len(node.children)}

\* The number of nodes of the subtree whose item is present.
RECURSIVE CountItems(_), CountItemsOf(_)
CountItemsOf(children) ==
    IF children = <<>> THEN 0
    ELSE CountItems(Head(children)) + CountItemsOf(Tail(children))

CountItems(node) ==
    (IF IsSome(node.item) THEN 1 ELSE 0) + CountItemsOf(node.children)

\* The paths (key_fragments from the root) of the nodes of the subtree, and of
\* those holding an item.
RECURSIVE NodePaths(_)
NodePaths(node) ==
    {<<>>} \cup UNION {{<<node.children[i].key_fragment>> \o q :
                          q \in NodePaths(node.children[i])} : i \in 1..Len(node.children)}

RECURSIVE ItemPaths(_)
ItemPaths(node) ==
    (IF IsSome(node.item) THEN {<<>>} ELSE {})
    \cup UNION {{<<node.children[i].key_fragment>> \o q :
                   q \in ItemPaths(node.children[i])} : i \in 1..Len(node.children)}

\* The sequences the iterators of a map yield.
IterSeq(m) == CollectIter(iter(m))
PrefixSeq(m, prefix) == Collect(prefix_iter(m, prefix))

(***************************************************************************)
(* State                                                                   *)
(***************************************************************************)
VARIABLES
    map,    \* the PrefixTreeMap
    ent,    \* Option<Entry>: the entry that borrows the map, not yet consumed
    hist    \* the call that has just returned: [op, arg, val, ret, pre], where
            \* pre is the map as it was before the call; op = "idle" once the
            \* caller has taken the result

vars == <<map, ent, hist>>

Call(op, arg, val, ret, pre) ==
    [op |-> op, arg |-> arg, val |-> val, ret |-> ret, pre |-> pre]

Idle == Call("idle", <<>>, 0, None, new)

\* The model explores maps of at most MaxLen entries: a call that would grow
\* the map beyond that is not taken.

\* The map is not borrowed and the previous call's result has been taken.
Ready == ent = None /\ hist = Idle

Init ==
    /\ map = new
    /\ ent = None
    /\ hist = Idle

Insert(key, value) ==
    /\ Ready
    /\ LET r == insert(map, key, value)
       IN /\ r.map.len <= MaxLen
          /\ map' = r.map
          /\ hist' = Call("insert", key, value, r.ret, map)
    /\ UNCHANGED ent

Remove(key) ==
    /\ Ready
    /\ LET r == remove(map, key)
       IN /\ map' = r.map
          /\ hist' = Call("remove", key, 0, r.ret, map)
    /\ UNCHANGED ent

RemoveEntry(key) ==
    /\ Ready
    /\ LET r == remove_entry(map, key)
       IN /\ map' = r.map
          /\ hist' = Call("remove_entry", key, 0, r.ret, map)
    /\ UNCHANGED ent

Compact ==
    /\ Ready
    /\ map' = map_compact(map)
    /\ hist' = Call("compact", <<>>, 0, None, map)
    /\ UNCHANGED ent

\* entry(key): the returned entry borrows the map until it is consumed.
MapEntry(key) ==
    /\ Ready
    /\ LET e == entry(map, key)
       IN /\ map' = e.map
          /\ ent' = Some(e.entry)
          /\ hist' = Call("entry", key, 0, e.entry.kind, map)

VacantInsert(value) ==
    /\ IsSome(ent) /\ ent[1].kind = "Vacant"
    /\ map.len < MaxLen
    /\ map' = VacantEntry_insert(map, ent[1], value)
    /\ ent' = None
    /\ hist' = Call("VacantEntry::insert", ent[1].key, value, None, map)

\* OccupiedEntry::insert takes &mut self: the entry stays usable.
OccupiedInsert(value) ==
    /\ IsSome(ent) /\ ent[1].kind = "Occupied"
    /\ LET r == OccupiedEntry_insert(map, ent[1], value)
       IN /\ map' = r.map
          /\ hist' = Call("OccupiedEntry::insert", hist.arg, value, Some(r.ret), map)
    /\ UNCHANGED ent

OccupiedRemoveEntry ==
    /\ IsSome(ent) /\ ent[1].kind = "Occupied"
    /\ LET r == OccupiedEntry_remove_entry(map, ent[1])
       IN /\ map' = r.map
          /\ hist' = Call("OccupiedEntry::remove_entry", hist.arg, 0, Some(r.ret), map)
    /\ ent' = None

EntryOrInsert(value) ==
    /\ IsSome(ent)
    /\ ent[1].kind = "Vacant" => map.len < MaxLen
    /\ map' = Entry_or_insert(map, ent[1], value)
    /\ ent' = None
    /\ hist' = Call("Entry::or_insert", hist.arg, value, None, map)

\* Entry::and_modify returns the entry.
EntryAndModify(f) ==
    /\ IsSome(ent)
    /\ LET r == Entry_and_modify(map, ent[1], f)
       IN /\ map' = r.map
          /\ ent' = Some(r.entry)
          /\ hist' = Call("Entry::and_modify", hist.arg, f, r.calls, map)

EntryRemoveEntry ==
    /\ IsSome(ent)
    /\ LET r == Entry_remove_entry(map, ent[1])
       IN /\ map' = r.map
          /\ hist' = Call("Entry::remove_entry", hist.arg, 0, r.ret, map)
    /\ ent' = None

EntryRemove ==
    /\ IsSome(ent)
    /\ LET r == Entry_remove(map, ent[1])
       IN /\ map' = r.map
          /\ hist' = Call("Entry::remove", hist.arg, 0, r.ret, map)
    /\ ent' = None

\* The entry goes out of scope unused.
EntryDrop ==
    /\ IsSome(ent)
    /\ ent' = None
    /\ hist' = Call("drop", hist.arg, 0, None, map)
    /\ UNCHANGED map

Union(other) ==
    /\ Ready
    /\ LET m == union_in_place(map, other)
       IN /\ m.len <= MaxLen
          /\ map' = m
    /\ hist' = Call("union", other, 0, None, map)
    /\ UNCHANGED ent

Intersection(other) ==
    /\ Ready
    /\ map' = intersection(map, other)
    /\ hist' = Call("intersection", other, 0, None, map)
    /\ UNCHANGED ent

Difference(other) ==
    /\ Ready
    /\ map' = difference_in_place(map, other)
    /\ hist' = Call("difference", other, 0, None, map)
    /\ UNCHANGED ent

SymmetricDifference(other) ==
    /\ Ready
    /\ LET m == symmetric_difference_in_place(map, other)
       IN /\ m.len <= MaxLen
          /\ map' = m
    /\ hist' = Call("symmetric_difference", other, 0, None, map)
    /\ UNCHANGED ent

\* The caller takes the result of the call that returned.  A call that
\* aborted the process (hist.op = "panic") has no caller left to return to.
Return ==
    /\ ent = None
    /\ hist # Idle
    /\ hist.op # "panic"
    /\ hist' = Idle
    /\ UNCHANGED <<map, ent>>

EntryNext ==
    \/ \E v \in Values : VacantInsert(v)
    \/ \E v \in Values : OccupiedInsert(v)
    \/ OccupiedRemoveEntry
    \/ \E v \in Values : EntryOrInsert(v)
    \/ \E f \in Modifiers : EntryAndModify(f)
    \/ EntryRemoveEntry
    \/ EntryRemove
    \/ EntryDrop

Next ==
    \/ Ready /\ \E k \in Keys, v \in Values : Insert(k, v)
    \/ Ready /\ \E k \in Keys : Remove(k)
    \/ Ready /\ \E k \in Keys : RemoveEntry(k)
    \/ Ready /\ \E k \in Keys : MapEntry(k)
    \/ IsSome(ent) /\ EntryNext
    \/ Compact
    \/ Return

Spec == Init /\ [][Next]_vars

NextBulk ==
    \/ Next
    \/ Ready /\ \E other \in OtherPairs : Union(other)
    \/ Ready /\ \E other \in OtherKeys : Intersection(other)
    \/ Ready /\ \E other \in OtherKeys : Difference(other)
    \/ Ready /\ \E other \in OtherPairs : SymmetricDifference(other)

SpecBulk == Init /\ [][NextBulk]_vars

\* Building a map by inserting entries with distinct keys one at a time:
\* hist.arg is the sequence of the entries inserted so far.
InitOrder ==
    /\ map = new
    /\ ent = None
    /\ hist = Call("inserts", <<>>, 0, None, new)

InsertNext(key, value) ==
    /\ Len(hist.arg) < MaxLen
    /\ \A i \in 1..Len(hist.arg) : as_ref(hist.arg[i][1]) # as_ref(key)
    /\ map' = insert(map, key, value).map
    /\ hist' = Call("inserts", Append(hist.arg, <<key, value>>), 0, None, new)
    /\ UNCHANGED ent

NextOrder == \E k \in Keys, v \in Values : InsertNext(k, v)

SpecOrder == InitOrder /\ [][NextOrder]_vars

\* The operations called with any of several key objects for the same bytes.
NextKey ==
    \/ Ready /\ \E k \in KeyObjects, v \in Values : Insert(k, v)
    \/ Ready /\ \E k \in Keys : Remove(k)
    \/ Ready /\ \E k \in KeyObjects : MapEntry(k)
    \/ IsSome(ent) /\ \E v \in Values : VacantInsert(v)
    \/ IsSome(ent) /\ \E v \in Values : OccupiedInsert(v)
    \/ IsSome(ent) /\ EntryDrop
    \/ Return

SpecKey == Init /\ [][NextKey]_vars

\* A PrefixTreeSet X: `map` is X.map.  The binary operations take a second
\* set Y as their iterable: `other` is what Y's owning iterator hands over,
\* for a Y built from any sequence of up to MaxOther keys.
SetOf(items) == Set_from_iter(items)

SetOthers == {CollectSetIntoIter(Set_into_iter(SetOf(items))) : items \in OtherKeys}

SetInsert(key) ==
    /\ Ready
    /\ LET r == Set_insert([map |-> map], key)
       IN /\ r.set.map.len <= MaxLen
          /\ map' = r.set.map
          /\ hist' = Call("Set::insert", key, 0, Some(r.ret), map)
    /\ UNCHANGED ent

SetRemove(key) ==
    /\ Ready
    /\ LET r == Set_remove([map |-> map], key)
       IN /\ map' = r.set.map
          /\ hist' = Call("Set::remove", key, 0, Some(r.ret), map)
    /\ UNCHANGED ent

SetCompact ==
    /\ Ready
    /\ map' = Set_compact([map |-> map]).map
    /\ hist' = Call("Set::compact", <<>>, 0, None, map)
    /\ UNCHANGED ent

SetUnion(other) ==
    /\ Ready
    /\ LET r == Set_union([map |-> map], other)
       IN /\ r.map.len <= MaxLen
          /\ map' = r.map
    /\ hist' = Call("Set::union", other, 0, None, map)
    /\ UNCHANGED ent

SetIntersection(other) ==
    /\ Ready
    /\ map' = Set_intersection([map |-> map], other).map
    /\ hist' = Call("Set::intersection", other, 0, None, map)
    /\ UNCHANGED ent

SetDifference(other) ==
    /\ Ready
    /\ map' = Set_difference([map |-> map], other).map
    /\ hist' = Call("Set::difference", other, 0, None, map)
    /\ UNCHANGED ent

SetSymmetricDifference(other) ==
    /\ Ready
    /\ LET r == Set_symmetric_difference([map |-> map], other)
       IN /\ r.map.len <= MaxLen
          /\ map' = r.map
    /\ hist' = Call("Set::symmetric_difference", other, 0, None, map)
    /\ UNCHANGED ent

NextSet ==
    \/ Ready /\ \E k \in Keys : SetInsert(k)
    \/ Ready /\ \E k \in Keys : SetRemove(k)
    \/ SetCompact
    \/ Ready /\ \E other \in SetOthers : SetUnion(other)
    \/ Ready /\ \E other \in SetOthers : SetIntersection(other)
    \/ Ready /\ \E other \in SetOthers : SetDifference(other)
    \/ Ready /\ \E other \in SetOthers : SetSymmetricDifference(other)
    \/ Return

SpecSet == Init /\ [][NextSet]_vars

\* A whole-tree iteration: hist.arg is the iterator the caller holds,
\* hist.val the number of items it has yielded so far, hist.ret what the last
\* next() returned and hist.pre the map it was created from.  The borrowing
\* iterator keeps the map borrowed; the owning one consumes a clone of it.
MapIter ==
    /\ Ready
    /\ hist' = Call("iter", iter(map), 0, None, map)
    /\ UNCHANGED <<map, ent>>

IterNext ==
    /\ ent = None
    /\ hist.op \in {"iter", "Iter::next"}
    /\ LET r == Iter_next(hist.arg)
       IN hist' = Call("Iter::next", r.iter,
                       IF IsSome(r.ret) THEN hist.val + 1 ELSE hist.val, r.ret, hist.pre)
    /\ UNCHANGED <<map, ent>>

MapIntoIter ==
    /\ Ready
    /\ hist' = Call("into_iter", into_iter(map), 0, None, map)
    /\ UNCHANGED <<map, ent>>

IntoIterNext ==
    /\ ent = None
    /\ hist.op \in {"into_iter", "IntoIter::next"}
    /\ LET r == IntoIter_next(hist.arg)
       IN hist' = Call("IntoIter::next", r.iter,
                       IF IsSome(r.ret) THEN hist.val + 1 ELSE hist.val, r.ret, hist.pre)
    /\ UNCHANGED <<map, ent>>

NextIter ==
    \/ Next
    \/ MapIter
    \/ IterNext
    \/ MapIntoIter
    \/ IntoIterNext

SpecIter == Init /\ [][NextIter]_vars

\* map[key]: the call either returns the value or aborts the process.
Index(key) ==
    /\ Ready
    /\ LET r == index(map, key)
       IN hist' = IF r.panic THEN Call("panic", key, 0, None, map)
                  ELSE Call("index", key, 0, r.ret, map)
    /\ UNCHANGED <<map, ent>>

NextIndex ==
    \/ Next
    \/ Ready /\ \E k \in Prefixes : Index(k)

SpecIndex == Init /\ [][NextIndex]_vars

\* A prefix-scoped iteration: hist.arg is the NodeIter or NodeIntoIter the
\* caller holds, hist.val the prefix it was created for, hist.ret what the
\* last next() returned and hist.pre the map it was created from.
MapPrefixIter(prefix) ==
    /\ Ready
    /\ hist' = Call("prefix_iter", prefix_iter(map, prefix), prefix, None, map)
    /\ UNCHANGED <<map, ent>>

PrefixIterNext ==
    /\ ent = None
    /\ hist.op \in {"prefix_iter", "NodeIter::next"}
    /\ LET r == NodeIter_next(hist.arg)
       IN hist' = Call("NodeIter::next", r.iter, hist.val, r.ret, hist.pre)
    /\ UNCHANGED <<map, ent>>

MapIntoPrefixIter(prefix) ==
    /\ Ready
    /\ hist' = Call("into_prefix_iter", into_prefix_iter(map, prefix), prefix, None, map)
    /\ UNCHANGED <<map, ent>>

IntoPrefixIterNext ==
    /\ ent = None
    /\ hist.op \in {"into_prefix_iter", "NodeIntoIter::next"}
    /\ LET r == NodeIntoIter_next(hist.arg)
       IN hist' = Call("NodeIntoIter::next", r.iter, hist.val, r.ret, hist.pre)
    /\ UNCHANGED <<map, ent>>

\* Maps built by insert, remove and compact, iterated by every iterator.
NextIterators ==
    \/ Ready /\ \E k \in Keys, v \in Values : Insert(k, v)
    \/ Ready /\ \E k \in Keys : Remove(k)
    \/ Compact
    \/ MapIter
    \/ IterNext
    \/ MapIntoIter
    \/ IntoIterNext
    \/ Ready /\ \E p \in Prefixes : MapPrefixIter(p)
    \/ PrefixIterNext
    \/ Ready /\ \E p \in Prefixes : MapIntoPrefixIter(p)
    \/ IntoPrefixIterNext
    \/ Return

SpecIterators == Init /\ [][NextIterators]_vars

(***************************************************************************)
(* next() of the subtree iterators, one step of its body at a time.  A     *)
(* call in progress is [it, depth, pc, ret, retries]: `it` is the iterator *)
(* the caller holds; depth the number of nested                            *)
(* `curr_child_iter.as_mut().and_then(Iterator::next)` calls on the stack, *)
(* so that `self` of the frame that is executing is the sub-iterator depth *)
(* levels down; pc its position in the body; ret the value a frame is      *)
(* returning; retries the number of `self.next()` retries made so far in   *)
(* the call.  A retry returns to its caller what it gets back, so it is    *)
(* taken as a jump to the top of the body of the same frame.               *)
(***************************************************************************)
RECURSIVE FrameAt(_, _)
FrameAt(it, depth) ==
    IF depth = 0 THEN it ELSE FrameAt(it.curr_child_iter[1], depth - 1)

RECURSIVE WithFrame(_, _, _)
WithFrame(it, depth, frame) ==
    IF depth = 0 THEN frame
    ELSE [it EXCEPT !.curr_child_iter = Some(WithFrame(@[1], depth - 1, frame))]

\* The caller enters next().
next_begin(it) == [it |-> it, depth |-> 0, pc |-> "item", ret |-> None, retries |-> 0]

\* next() retrying without taking the next child out of children_iter.
next_step_keeps_child(c, owning) ==
    LET self == FrameAt(c.it, c.depth)
    IN CASE c.pc = "item" ->
              IF IsSome(self.item)
              THEN [c EXCEPT !.it = WithFrame(c.it, c.depth, [self EXCEPT !.item = None]),
                             !.ret = self.item, !.pc = "return"]
              ELSE IF IsSome(self.curr_child_iter) THEN [c EXCEPT !.depth = @ + 1]
              ELSE [c EXCEPT !.pc = "advance"]
         [] c.pc = "return" ->
              IF c.depth = 0 THEN [c EXCEPT !.pc = "done"]
              ELSE IF IsSome(c.ret) THEN [c EXCEPT !.depth = @ - 1]
              ELSE [c EXCEPT !.depth = @ - 1, !.pc = "advance"]
         [] c.pc = "advance" ->
              IF self.children_iter = <<>> THEN [c EXCEPT !.ret = None, !.pc = "return"]
              ELSE LET child == Head(self.children_iter)
                       sub == IF owning THEN Node_into_iter(child) ELSE Node_iter(child)
                   IN [c EXCEPT !.it = WithFrame(c.it, c.depth,
                                           [self EXCEPT !.curr_child_iter = Some(sub)]),
                                !.pc = "item", !.retries = @ + 1]

\* One step of the body of NodeIter::next (owning = FALSE) or of
\* NodeIntoIter::next (owning = TRUE).
\*   "item":    `if let Some(item) = self.item.take() { return Some(item) }`,
\*              and failing that the call of next() on the current child;
\*   "return":  the frame returns c.ret to the `and_then` of its caller,
\*              which returns it in turn when it is an item;
\*   "advance": `let next_child = self.children_iter.next()?`, the new
\*              current child, and `self.next()`.
next_step(c, owning) ==
    LET self == FrameAt(c.it, c.depth)
    IN CASE c.pc = "item" ->
              IF IsSome(self.item)
              THEN [c EXCEPT !.it = WithFrame(c.it, c.depth, [self EXCEPT !.item = None]),
                             !.ret = self.item, !.pc = "return"]
              ELSE IF IsSome(self.curr_child_iter) THEN [c EXCEPT !.depth = @ + 1]
              ELSE [c EXCEPT !.pc = "advance"]
         [] c.pc = "return" ->
              IF c.depth = 0 THEN [c EXCEPT !.pc = "done"]
              ELSE IF IsSome(c.ret) THEN [c EXCEPT !.depth = @ - 1]
              ELSE [c EXCEPT !.depth = @ - 1, !.pc = "advance"]
         [] c.pc = "advance" ->
              IF self.children_iter = <<>> THEN [c EXCEPT !.ret = None, !.pc = "return"]
              ELSE LET child == Head(self.children_iter)
                       sub == IF owning THEN Node_into_iter(child) ELSE Node_iter(child)
                   IN [c EXCEPT !.it = WithFrame(c.it, c.depth,
                                           [self EXCEPT !.children_iter = Tail(@),
                                                        !.curr_child_iter = Some(sub)]),
                                !.pc = "item", !.retries = @ + 1]

\* A full iteration over the subtree of a prefix, next() taken step by step.
\* hist.arg is the call in progress or the one that returned last, hist.val
\* the prefix, the kind of iterator and the number of items yielded so far,
\* hist.ret what the last next() returned, hist.pre the map.
SubtreeIter(prefix, owning) ==
    /\ Ready
    /\ LET it == IF owning THEN into_prefix_iter(map, prefix) ELSE prefix_iter(map, prefix)
       IN hist' = Call("created", [next_begin(it) EXCEPT !.pc = "done"],
                       [prefix |-> prefix, owning |-> owning, yielded |-> 0], None, map)
    /\ UNCHANGED <<map, ent>>

\* The loop calls next() until it has returned None.
CallNext ==
    /\ hist.op = "created" \/ (hist.op = "returned" /\ IsSome(hist.ret))
    /\ hist' = Call("running", next_begin(hist.arg.it), hist.val, None, hist.pre)
    /\ UNCHANGED <<map, ent>>

StepNext ==
    /\ hist.op = "running"
    /\ hist.arg.pc # "done"
    /\ hist' = [hist EXCEPT !.arg = next_step(@, hist.val.owning)]
    /\ UNCHANGED <<map, ent>>

ReturnNext ==
    /\ hist.op = "running"
    /\ hist.arg.pc = "done"
    /\ hist' = Call("returned", hist.arg,
                    [hist.val EXCEPT !.yielded = IF IsSome(hist.arg.ret) THEN @ + 1 ELSE @],
                    hist.arg.ret, hist.pre)
    /\ UNCHANGED <<map, ent>>

\* The loop ends and the iterator is dropped.
DropIter ==
    /\ hist.op = "returned"
    /\ IsNone(hist.ret)
    /\ hist' = Idle
    /\ UNCHANGED <<map, ent>>

\* Maps built by insert and remove; every subtree of each is iterated in full.
NextSubtree ==
    \/ Ready /\ \E k \in Keys : Insert(k, 1)
    \/ Ready /\ \E k \in Keys : Remove(k)
    \/ hist.op \in {"insert", "remove"} /\ Return
    \/ Ready /\ \E p \in Prefixes, owning \in BOOLEAN : SubtreeIter(p, owning)
    \/ CallNext
    \/ StepNext
    \/ ReturnNext
    \/ DropIter

\* A call runs to completion on the calling thread, and the loop of a full
\* iteration goes on calling next() until it returns None.
SpecSubtree ==
    /\ Init
    /\ [][NextSubtree]_vars
    /\ WF_vars(CallNext)
    /\ WF_vars(StepNext)
    /\ WF_vars(ReturnNext)

\* The lookups take `&self`: they hand back what they found and leave the map
\* to the caller as it was.
Get(key) ==
    /\ Ready
    /\ hist' = Call("get", key, 0, get(map, key), map)
    /\ UNCHANGED <<map, ent>>

GetEntry(key) ==
    /\ Ready
    /\ hist' = Call("get_entry", key, 0, get_entry(map, key), map)
    /\ UNCHANGED <<map, ent>>

\* hist.ret holds the answer of contains_key as Some(answer).
ContainsKey(key) ==
    /\ Ready
    /\ hist' = Call("contains_key", key, 0, Some(contains_key(map, key)), map)
    /\ UNCHANGED <<map, ent>>

\* The operations of the map together with its lookups.
NextLookup ==
    \/ Next
    \/ Ready /\ \E k \in Keys : Get(k)
    \/ Ready /\ \E k \in Keys : GetEntry(k)
    \/ Ready /\ \E k \in Keys : ContainsKey(k)
    \/ Ready /\ \E p \in Prefixes : MapPrefixIter(p)
    \/ MapIter

SpecLookup == Init /\ [][NextLookup]_vars

(***************************************************************************)
(* Properties                                                              *)
(*                                                                         *)
(* `hist` holds the call that has just returned: its arguments, what it    *)
(* returned, and the map it was made on (hist.pre); `map` is the map after *)
(* it.  A second call of a sequence is the operation applied to `map`.     *)
(***************************************************************************)

\* C1: after insert(k, v1) on any map, get(k) returns v1; a following
\* insert(k, v2) returns v1 as the prior value and leaves exactly one entry
\* for k, holding v2; len grows by at most 1 over both calls.
C1_InsertThenGet ==
    hist.op = "insert" =>
        LET k == hist.arg
            v1 == hist.val
        IN /\ get(map, k) = Some(v1)
           /\ map.len <= hist.pre.len + 1
           /\ \A v2 \in Values :
                LET second == insert(map, k, v2)
                    yielded == IterSeq(second.map)
                IN /\ second.ret = Some(v1)
                   /\ get(second.map, k) = Some(v2)
                   /\ Cardinality({i \in 1..Len(yielded) : as_ref(yielded[i][1]) = as_ref(k)}) = 1
                   /\ second.map.len = map.len
                   /\ second.map.len <= hist.pre.len + 1

\* An insert on a key that was present, replacing a different value.
C1_Witness ==
    /\ hist.op = "insert"
    /\ IsSome(hist.ret)
    /\ hist.ret # Some(hist.val)
    /\ get(map, hist.arg) = Some(hist.val)
    /\ map.len = hist.pre.len

\* C2: remove(k) on a map without k returns None and leaves len unchanged;
\* on a map with k it returns the stored value, decrements len by exactly 1,
\* makes contains_key(k) false, and leaves the membership and the value of
\* every other key unchanged.
C2_Remove ==
    hist.op = "remove" =>
        LET k == hist.arg
            pre == hist.pre
        IN IF ~contains_key(pre, k)
           THEN /\ hist.ret = None
                /\ map.len = pre.len
           ELSE /\ hist.ret = get(pre, k)
                /\ IsSome(hist.ret)
                /\ map.len = pre.len - 1
                /\ ~contains_key(map, k)
                /\ \A j \in {q \in Keys : as_ref(q) # as_ref(k)} :
                     /\ contains_key(map, j) = contains_key(pre, j)
                     /\ get(map, j) = get(pre, j)

\* A remove of a present key from a map holding other keys as well.
C2_Witness ==
    /\ hist.op = "remove"
    /\ contains_key(hist.pre, hist.arg)
    /\ IsSome(hist.ret)
    /\ map.len >= 1

\* C3: after any sequence of insertions, removals, entry operations and
\* bulk operations, len equals the number of nodes whose item is present.
C3_LenCountsItems == map.len = CountItems(map.root)

\* A bulk operation that both added and removed entries, leaving item-less
\* nodes next to populated ones.
C3_Witness ==
    /\ hist.op = "symmetric_difference"
    /\ map.len >= 2
    /\ map.len = hist.pre.len
    /\ map # hist.pre
    /\ Cardinality(NodePaths(map.root)) > Cardinality(ItemPaths(map.root)) + 1

\* C4: for every reachable map, the whole-tree iterator yields every stored
\* pair exactly once, in strictly increasing lexicographic order of the keys'
\* bytes (so a key that is a proper prefix of another comes before it).
\* Iterating needs the map unborrowed, and every reachable map occurs in a
\* Ready state.
C4_IterSorted ==
    Ready =>
        LET yielded == IterSeq(map)
        IN /\ \A i \in 1..(Len(yielded) - 1) : KeyLess(yielded[i][1], yielded[i + 1][1])
           /\ \A i, j \in 1..Len(yielded) : i # j => yielded[i] # yielded[j]
           /\ Range(yielded) = Items(map.root)
           /\ Len(yielded) = CountItems(map.root)

\* A map with item-less nodes and a stored key that is a proper prefix of the
\* stored key that follows it.
C4_Witness ==
    /\ Ready
    /\ map.len >= 2
    /\ Cardinality(NodePaths(map.root)) > Cardinality(ItemPaths(map.root)) + 1
    /\ LET yielded == IterSeq(map)
       IN \E i \in 1..(Len(yielded) - 1) : KeyIsProperPrefix(yielded[i][1], yielded[i + 1][1])

\* C5: for every reachable map and every byte string p, prefix_iter(p)
\* yields exactly the entries whose key starts with p, in the order the
\* whole-tree iterator yields them; when no node path for p exists, its
\* first next() already returns None.
C5_PrefixIter ==
    Ready =>
        \A p \in Prefixes :
            LET Matches(item) == KeyStartsWith(item[1], p)
            IN /\ PrefixSeq(map, p) = SelectSeq(IterSeq(map), Matches)
               /\ IsNone(search(map.root, as_ref(p))) => IsNone(NodeIter_next(prefix_iter(map, p)).ret)

\* A map on which one prefix selects several but not all entries, and
\* another prefix has no node path.
C5_Witness ==
    /\ Ready
    /\ \E p \in Prefixes :
         /\ Len(PrefixSeq(map, p)) >= 2
         /\ Len(PrefixSeq(map, p)) < map.len
    /\ \E p \in Prefixes : IsNone(search(map.root, as_ref(p)))

\* Every order of the entries of a sequence.
Orders(items) ==
    {[i \in 1..Len(items) |-> items[f[i]]] : f \in Permutations(1..Len(items))}

\* C6: for entries with distinct keys, every insertion order produces maps
\* that are observationally identical: equal under ==, with the same len, the
\* same membership and values, the same iteration sequence and the same
\* structural hash; the trees themselves are identical.
C6_OrderIndependent ==
    hist.op = "inserts" =>
        \A order \in Orders(hist.arg) :
            LET other == from_iter(order)
            IN /\ eq(map, other) /\ eq(other, map)
               /\ map.len = other.len
               /\ \A k \in Keys : /\ contains_key(map, k) = contains_key(other, k)
                                  /\ get(map, k) = get(other, k)
               /\ IterSeq(map) = IterSeq(other)
               /\ hash(map) = hash(other)
               /\ map.root = other.root

\* Three or more entries inserted in an order that is not the sorted one, the first
\* inserted key extending a later one.
C6_Witness ==
    /\ hist.op = "inserts"
    /\ Len(hist.arg) >= 3
    /\ map.len = Len(hist.arg)
    /\ \E i \in 2..Len(hist.arg) : KeyIsProperPrefix(hist.arg[i][1], hist.arg[1][1])
    /\ \E i \in 2..Len(hist.arg) : KeyLess(hist.arg[i][1], hist.arg[i - 1][1])

\* C7 (as the specification states it): for every reachable map m,
\* m == compact(copy of m) and both feed the hasher alike, item-less nodes
\* having no effect on equality and hashing.
C7_EqIgnoresEmptyNodes ==
    Ready =>
        LET compacted == map_compact(map)
        IN eq(map, compacted) /\ hash(map) = hash(compacted)

\* C8: compact() leaves len, the membership and the value of every key, the
\* whole-tree iteration sequence and every prefix_iter sequence unchanged;
\* only item-less nodes disappear.
C8_CompactFrame ==
    hist.op = "compact" =>
        LET pre == hist.pre
        IN /\ map.len = pre.len
           /\ \A k \in Keys : /\ contains_key(map, k) = contains_key(pre, k)
                              /\ get(map, k) = get(pre, k)
                              /\ get_entry(map, k) = get_entry(pre, k)
           /\ IterSeq(map) = IterSeq(pre)
           /\ \A p \in Prefixes : PrefixSeq(map, p) = PrefixSeq(pre, p)
           /\ ItemPaths(map.root) = ItemPaths(pre.root)
           /\ NodePaths(map.root) \subseteq NodePaths(pre.root)

\* A compact() that pruned nodes from a map that holds entries, one of them
\* below a node without an item.
C8_Witness ==
    /\ hist.op = "compact"
    /\ map # hist.pre
    /\ map.len >= 2
    /\ \E k \in ItemPaths(map.root) :
         \E q \in NodePaths(map.root) \ ItemPaths(map.root) : IsProperPrefix(q, k)

\* C9: compact() is idempotent: after one compact(), a second one (and a
\* third) changes neither the tree nor any observable result.
C9_CompactIdempotent ==
    hist.op = "compact" =>
        LET twice == map_compact(map)
            thrice == map_compact(twice)
        IN /\ twice = map
           /\ thrice = map
           /\ eq(twice, map)
           /\ IterSeq(twice) = IterSeq(map)
           /\ \A k \in Keys : get(twice, k) = get(map, k)

\* A compact() that pruned a chain of at least two item-less nodes.
C9_Witness ==
    /\ hist.op = "compact"
    /\ Cardinality(NodePaths(hist.pre.root)) >= Cardinality(NodePaths(map.root)) + 2
    /\ \E q \in NodePaths(hist.pre.root) \ NodePaths(map.root) :
         \E k \in NodePaths(hist.pre.root) \ NodePaths(map.root) : IsProperPrefix(q, k)

\* C10: entry(k) for a key k absent from the map returns a Vacant entry and
\* changes neither len nor contains_key(k); a second entry(k) right after,
\* nothing having been inserted, does the same; and entry(k).remove()
\* returns None, again without changing len or contains_key(k).
C10_VacantTwice ==
    /\ (hist.op = "entry" /\ ~contains_key(hist.pre, hist.arg)) =>
           LET k == hist.arg
               second == entry(map, k)
               removed == Entry_remove(second.map, second.entry)
           IN /\ hist.ret = "Vacant"
              /\ map.len = hist.pre.len
              /\ ~contains_key(map, k)
              /\ second.entry.kind = "Vacant"
              /\ second.map.len = hist.pre.len
              /\ ~contains_key(second.map, k)
              /\ removed.ret = None
              /\ removed.map.len = hist.pre.len
              /\ ~contains_key(removed.map, k)
    /\ (hist.op = "Entry::remove" /\ ~contains_key(hist.pre, hist.arg)) =>
           /\ hist.ret = None
           /\ map.len = hist.pre.len
           /\ ~contains_key(map, hist.arg)

\* entry(k) returning Vacant for an absent key whose node was already in the
\* tree, left there with an empty slot by an earlier call.
C10_Witness ==
    /\ hist.op = "entry"
    /\ hist.ret = "Vacant"
    /\ as_ref(hist.arg) # <<>>
    /\ IsSome(search(hist.pre.root, as_ref(hist.arg)))
    /\ map = hist.pre
    /\ map.len >= 1

\* C11: VacantEntry::insert(value) on the vacant entry for key k writes
\* (k, value) into k's node, increases len by exactly 1, and afterwards
\* get(k) returns the value; no other key's membership or value changes.
C11_VacantInsert ==
    hist.op = "VacantEntry::insert" =>
        LET k == hist.arg
            pre == hist.pre
        IN /\ ~contains_key(pre, k)
           /\ search(map.root, as_ref(k))[1].item = Some(<<k, hist.val>>)
           /\ get_entry(map, k) = Some(<<k, hist.val>>)
           /\ get(map, k) = Some(hist.val)
           /\ map.len = pre.len + 1
           /\ ItemPaths(map.root) = ItemPaths(pre.root) \cup {as_ref(k)}
           /\ \A j \in {q \in Keys : as_ref(q) # as_ref(k)} :
                /\ contains_key(map, j) = contains_key(pre, j)
                /\ get(map, j) = get(pre, j)

\* A VacantEntry::insert into a map that already held entries, for a key with
\* at least one byte.
C11_Witness ==
    /\ hist.op = "VacantEntry::insert"
    /\ hist.pre.len >= 1
    /\ as_ref(hist.arg) # <<>>
    /\ map.len = hist.pre.len + 1

\* C12: inserting a value for a key that is already present, through
\* OccupiedEntry::insert or through PrefixTreeMap::insert, replaces only the
\* value: the key object stored first is retained (not the one passed to the
\* call), the previous value is returned, and len is unchanged.
C12_ReplaceKeepsKey ==
    ((hist.op = "insert" /\ contains_key(hist.pre, hist.arg))
        \/ hist.op = "OccupiedEntry::insert") =>
        LET k == hist.arg
            pre == hist.pre
            old == get_entry(pre, k)[1]
        IN /\ get_entry(map, k) = Some(<<old[1], hist.val>>)
           /\ hist.ret = Some(old[2])
           /\ map.len = pre.len
           /\ NodePaths(map.root) = NodePaths(pre.root)
           /\ \A j \in {q \in Keys : as_ref(q) # as_ref(k)} :
                get_entry(map, j) = get_entry(pre, j)

\* PrefixTreeMap::insert called with another key object than the stored one,
\* of the same bytes, and another value than the stored one.
C12_Witness ==
    /\ hist.op = "insert"
    /\ contains_key(hist.pre, hist.arg)
    /\ get_entry(hist.pre, hist.arg)[1][1] # hist.arg
    /\ get_entry(hist.pre, hist.arg)[1][2] # hist.val
    /\ get_entry(map, hist.arg)[1][1] # hist.arg

\* C13: Entry::and_modify(f) on a vacant entry never calls f and returns the
\* entry still vacant, so that a following or_insert(v) stores exactly v; on
\* an occupied entry it calls f exactly once on the stored value, and len is
\* unchanged.
C13_AndModify ==
    hist.op = "Entry::and_modify" =>
        LET k == hist.arg
            f == hist.val
            pre == hist.pre
        IN /\ map.len = pre.len
           /\ IsSome(ent)
           /\ IF ~contains_key(pre, k)
              THEN /\ hist.ret = 0
                   /\ map = pre
                   /\ ent[1].kind = "Vacant"
                   /\ \A v \in Values :
                        LET after == Entry_or_insert(map, ent[1], v)
                        IN /\ get(after, k) = Some(v)
                           /\ after.len = pre.len + 1
              ELSE /\ hist.ret = 1
                   /\ ent[1].kind = "Occupied"
                   /\ get(map, k) = Some(f[get(pre, k)[1]])
                   /\ get_entry(map, k)[1][1] = get_entry(pre, k)[1][1]
                   /\ \A j \in {q \in Keys : as_ref(q) # as_ref(k)} :
                        get_entry(map, j) = get_entry(pre, j)

\* and_modify on a vacant entry of a map holding entries, with a modifier
\* that would change every value.
C13_Witness ==
    /\ hist.op = "Entry::and_modify"
    /\ IsSome(ent) /\ ent[1].kind = "Vacant"
    /\ hist.pre.len >= 1
    /\ \A v \in Values : hist.val[v] # v

\* The positions of an incoming sequence of pairs at which the key has the
\* bytes of k, and the last of them.
Occurrences(other, k) == {i \in 1..Len(other) : as_ref(other[i][1]) = as_ref(k)}
LastOccurrence(other, k) ==
    CHOOSE i \in Occurrences(other, k) : \A j \in Occurrences(other, k) : j <= i

\* A map holds, for every key, the value of the key's last occurrence in
\* `other` when there is one, and what `base` holds for it otherwise.
RightBiased(m, base, other) ==
    /\ \A k \in Keys :
         IF Occurrences(other, k) = {}
         THEN get_entry(m, k) = get_entry(base, k)
         ELSE get(m, k) = Some(other[LastOccurrence(other, k)][2])
    /\ m.len = Cardinality({k \in Keys : contains_key(base, k) \/ Occurrences(other, k) # {}})

\* C14: union / union_in_place / extend, and construction from a sequence,
\* are right-biased: afterwards every incoming key maps to the value of its
\* last occurrence in the sequence, overwriting what self held for it, and
\* every key of self that is not in the sequence keeps its value.
C14_UnionRightBiased ==
    hist.op = "union" =>
        /\ RightBiased(map, hist.pre, hist.arg)
        /\ RightBiased(from_iter(hist.arg), new, hist.arg)

\* A union whose sequence names twice, with different values, a key that
\* self holds, self holding another key as well.
C14_Witness ==
    /\ hist.op = "union"
    /\ Len(hist.arg) >= 2
    /\ as_ref(hist.arg[1][1]) = as_ref(hist.arg[2][1])
    /\ hist.arg[1][2] # hist.arg[2][2]
    /\ get(hist.pre, hist.arg[1][1]) = Some(hist.arg[1][2])
    /\ hist.pre.len >= 2

\* C15: for a map self and any sequence other of keys (duplicates allowed,
\* any order), intersection returns exactly the entries of self whose key
\* occurs in other, each with the key and the value stored in self; its len
\* is the number of such entries.
C15_Intersection ==
    hist.op = "intersection" =>
        LET other == hist.arg
            pre == hist.pre
            Listed(k) == \E i \in 1..Len(other) : as_ref(other[i]) = as_ref(k)
            kept == {k \in Keys : contains_key(pre, k) /\ Listed(k)}
        IN /\ \A k \in kept : get_entry(map, k) = get_entry(pre, k)
           /\ \A k \in Keys \ kept : ~contains_key(map, k)
           /\ map.len = Cardinality(kept)
           /\ Cardinality(Items(map.root)) = Cardinality(kept)

\* An intersection with a sequence naming the same present key twice, self
\* holding other entries that are dropped.
C15_Witness ==
    /\ hist.op = "intersection"
    /\ Len(hist.arg) >= 2
    /\ hist.arg[1] = hist.arg[2]
    /\ contains_key(hist.pre, hist.arg[1])
    /\ hist.pre.len >= 2
    /\ map.len = 1

\* C16 (as the specification states it, for any incoming sequence): the
\* result holds exactly the keys that are in exactly one of self and other,
\* with self's value for the keys of self only and other's value for the
\* keys of other only.
C16_AsStated ==
    hist.op = "symmetric_difference" =>
        \A k \in Keys :
            LET inSelf == contains_key(hist.pre, k)
                inOther == Occurrences(hist.arg, k) # {}
            IN /\ contains_key(map, k) = (inSelf # inOther)
               /\ (inSelf /\ ~inOther) => get(map, k) = get(hist.pre, k)
               /\ (inOther /\ ~inSelf) =>
                    get(map, k) = Some(hist.arg[LastOccurrence(hist.arg, k)][2])

\* C16 (amended): each occurrence of a key in the incoming sequence toggles
\* the key.  A key is in the result exactly when its membership in self
\* differs from the oddness of its number of occurrences in other; a
\* surviving key that does not occur in other keeps self's entry, any other
\* surviving key holds the value of its last occurrence.  When the keys of
\* other are pairwise distinct this is the statement above.
C16_SymmetricDifference ==
    hist.op = "symmetric_difference" =>
        \A k \in Keys :
            LET inSelf == contains_key(hist.pre, k)
                n == Cardinality(Occurrences(hist.arg, k))
            IN /\ contains_key(map, k) = (inSelf # (n % 2 = 1))
               /\ (contains_key(map, k) /\ n = 0) => get_entry(map, k) = get_entry(hist.pre, k)
               /\ (contains_key(map, k) /\ n > 0) =>
                    get(map, k) = Some(hist.arg[LastOccurrence(hist.arg, k)][2])

\* A symmetric difference with two incoming pairs of distinct keys, one held
\* by self and removed, the other new and inserted, a third key of self
\* staying.
C16_Witness ==
    /\ hist.op = "symmetric_difference"
    /\ Len(hist.arg) >= 2
    /\ as_ref(hist.arg[1][1]) # as_ref(hist.arg[2][1])
    /\ contains_key(hist.pre, hist.arg[1][1]) /\ ~contains_key(map, hist.arg[1][1])
    /\ ~contains_key(hist.pre, hist.arg[2][1]) /\ contains_key(map, hist.arg[2][1])
    /\ hist.pre.len >= 2

\* The elements of a set, as byte strings, and the statement that the set
\* holds exactly the byte strings E and iterates them in ascending order.
SetElems(s) == {as_ref(k) : k \in {q \in Keys : Set_contains(s, q)}}

SetIs(s, E) ==
    LET yielded == CollectSetIter(Set_iter(s))
    IN /\ SetElems(s) = E
       /\ Len(yielded) = Cardinality(E)
       /\ {as_ref(yielded[i]) : i \in 1..Len(yielded)} = E
       /\ \A i \in 1..(Len(yielded) - 1) : KeyLess(yielded[i], yielded[i + 1])

\* C17: for sets X and Y, union, intersection, difference and
\* symmetric_difference of X with Y hold exactly the elements of the
\* mathematical X \cup Y, X \cap Y, X \ Y and X symmetric-difference Y and
\* iterate them in ascending order; with Y = X the union and the intersection
\* hold the elements of X and the difference and the symmetric difference are
\* empty.
C17_SetOperations ==
    LET X == SetElems([map |-> hist.pre])
        Y == {as_ref(hist.arg[i]) : i \in 1..Len(hist.arg)}
        result == [map |-> map]
    IN /\ hist.op = "Set::union" => SetIs(result, X \cup Y)
       /\ hist.op = "Set::intersection" => SetIs(result, X \cap Y)
       /\ hist.op = "Set::difference" => SetIs(result, X \ Y)
       /\ hist.op = "Set::symmetric_difference" => SetIs(result, (X \ Y) \cup (Y \ X))
       /\ Ready =>
            LET self == [map |-> map]
                other == CollectSetIntoIter(Set_into_iter(self))
            IN /\ SetIs(Set_union(self, other), SetElems(self))
               /\ SetIs(Set_intersection(self, other), SetElems(self))
               /\ SetIs(Set_difference(self, other), {})
               /\ SetIs(Set_symmetric_difference(self, other), {})

\* A symmetric difference of a two-element X with an overlapping Y built from
\* a sequence, and a non-empty X to combine with itself.
C17_Witness ==
    LET X == SetElems([map |-> hist.pre])
        Y == {as_ref(hist.arg[i]) : i \in 1..Len(hist.arg)}
    IN /\ hist.op = "Set::symmetric_difference"
       /\ X \cap Y # {}
       /\ X \ Y # {}
       /\ Y \ X # {}
       /\ map.len = 2

\* C18: at every point of an iteration with the borrowing Iter or the owning
\* IntoIter, len() and size_hint() report the map's len at the iterator's
\* creation minus the number of items yielded so far; the report is 0
\* exactly when the next call of next() returns None, and it never goes
\* below 0.
C18_ExactLen ==
    /\ hist.op \in {"iter", "Iter::next"} =>
         LET it == hist.arg
         IN /\ Iter_len(it) = hist.pre.len - hist.val
            /\ Iter_size_hint(it) = <<hist.pre.len - hist.val, Some(hist.pre.len - hist.val)>>
            /\ Iter_len(it) >= 0
            /\ Iter_len(it) = 0 <=> IsNone(Iter_next(it).ret)
            /\ (hist.op = "Iter::next" /\ IsNone(hist.ret)) => Iter_len(it) = 0
    /\ hist.op \in {"into_iter", "IntoIter::next"} =>
         LET it == hist.arg
         IN /\ IntoIter_len(it) = hist.pre.len - hist.val
            /\ IntoIter_size_hint(it) = <<hist.pre.len - hist.val, Some(hist.pre.len - hist.val)>>
            /\ IntoIter_len(it) >= 0
            /\ IntoIter_len(it) = 0 <=> IsNone(IntoIter_next(it).ret)
            /\ (hist.op = "IntoIter::next" /\ IsNone(hist.ret)) => IntoIter_len(it) = 0

\* A borrowing iteration over three entries that has yielded two of them,
\* on a map that also has an item-less node.
C18_Witness ==
    /\ hist.op = "Iter::next"
    /\ hist.pre.len = 3
    /\ hist.val = 2
    /\ IsSome(hist.ret)
    /\ (NodePaths(hist.pre.root) \ ItemPaths(hist.pre.root)) \ {<<>>} # {}

\* C19: in every reachable state map[k] returns the stored value when k is
\* present and aborts when k is absent, while get(k) on the absent key
\* returns None; no other operation aborts: an occupied entry always finds
\* its item, and no len is decremented below 0.
C19_IndexAborts ==
    /\ hist.op = "index" =>
         /\ \E item \in Items(hist.pre.root) :
                as_ref(item[1]) = as_ref(hist.arg) /\ hist.ret = Some(item[2])
         /\ map = hist.pre
    /\ hist.op = "panic" =>
         /\ \A item \in Items(hist.pre.root) : as_ref(item[1]) # as_ref(hist.arg)
         /\ get(hist.pre, hist.arg) = None
         /\ hist = Call("panic", hist.arg, 0, None, map)
         /\ index(map, hist.arg).panic
    /\ (IsSome(ent) /\ ent[1].kind = "Occupied") => ~OccupiedEntry_expect_panics(map, ent[1])
    /\ map.len >= 0

\* Indexing aborted on a key that was removed before: its node is still in
\* the tree, next to two stored entries.
C19_Witness ==
    /\ hist.op = "panic"
    /\ IsSome(search(map.root, as_ref(hist.arg)))
    /\ map.len = 2

\* C20: in every reachable set, contains_prefix(p) is true exactly when some
\* element of the set starts with the bytes of p, which is exactly when the
\* first next() of prefix_iter(p) yields an element.
C20_ContainsPrefix ==
    \A p \in Prefixes :
        LET s == [map |-> map]
        IN /\ Set_contains_prefix(s, p)
                <=> \E k \in Keys : Set_contains(s, k) /\ KeyStartsWith(k, p)
           /\ Set_contains_prefix(s, p)
                <=> IsSome(SetPrefixIter_next(Set_prefix_iter(s, p)).ret)

\* A set in which one prefix has a node with no element below it (left by a
\* removal) and another is a proper prefix of an element without being one.
C20_Witness ==
    LET s == [map |-> map]
    IN /\ hist.op = "Set::remove"
       /\ \E p \in Prefixes :
            IsSome(search(map.root, as_ref(p))) /\ ~Set_contains_prefix(s, p)
       /\ \E q \in Prefixes :
            Len(as_ref(q)) > 0 /\ Set_contains_prefix(s, q) /\ ~Set_contains(s, q)

\* The empty key and the one-byte key [0].
EmptyKey == Key(<<>>, 0)
ZeroKey == Key(<<0>>, 0)

\* C21: the empty key is an ordinary key whose item is stored on the root: a
\* new map does not hold it, insert stores it, get reads it, remove takes it
\* out again, and iteration yields it first; it is distinct from the key
\* [0]: inserting or removing either of the two leaves the presence and the
\* value of the other as they were.
C21_EmptyKey ==
    /\ get(new, EmptyKey) = None /\ ~contains_key(new, EmptyKey)
    /\ ~contains_key(new, ZeroKey)
    /\ contains_key(map, EmptyKey) <=> IsSome(map.root.item)
    /\ contains_key(map, EmptyKey) =>
         /\ IterSeq(map)[1] = map.root.item[1]
         /\ as_ref(IterSeq(map)[1][1]) = <<>>
    /\ (hist.op = "insert" /\ as_ref(hist.arg) = <<>>) =>
         /\ get(map, EmptyKey) = Some(hist.val)
         /\ map.root.item = Some(<<IF contains_key(hist.pre, EmptyKey)
                                     THEN hist.pre.root.item[1][1] ELSE hist.arg,
                                   hist.val>>)
         /\ get(map, ZeroKey) = get(hist.pre, ZeroKey)
         /\ map.root.key_fragment = hist.pre.root.key_fragment
    /\ (hist.op = "insert" /\ as_ref(hist.arg) = <<0>>) =>
         /\ get(map, ZeroKey) = Some(hist.val)
         /\ get(map, EmptyKey) = get(hist.pre, EmptyKey)
    /\ (hist.op = "remove" /\ as_ref(hist.arg) = <<>>) =>
         /\ hist.ret = get(hist.pre, EmptyKey)
         /\ ~contains_key(map, EmptyKey)
         /\ get(map, ZeroKey) = get(hist.pre, ZeroKey)
    /\ (hist.op = "remove" /\ as_ref(hist.arg) = <<0>>) =>
         /\ ~contains_key(map, ZeroKey)
         /\ get(map, EmptyKey) = get(hist.pre, EmptyKey)

\* The empty key inserted into a map that holds [0] and not yet the empty key.
C21_Witness ==
    /\ hist.op = "insert"
    /\ as_ref(hist.arg) = <<>>
    /\ contains_key(hist.pre, ZeroKey)
    /\ ~contains_key(hist.pre, EmptyKey)
    /\ map.len = 3

\* The reference dictionary a map stands for: for every byte string of up to
\* MaxKeyLen + 1 bytes, the value get reports; and the dictionary the call
\* recorded in hist makes of the dictionary d.
PrefixBytes == KeysUpTo(MaxKeyLen + 1)

Dict(m) == [b \in PrefixBytes |-> get(m, Key(b, 0))]

EmptyDict == [b \in PrefixBytes |-> None]

DictAfter(d) ==
    LET b == as_ref(hist.arg)
    IN CASE hist.op \in {"insert", "VacantEntry::insert", "OccupiedEntry::insert"} ->
              [d EXCEPT ![b] = Some(hist.val)]
         [] hist.op \in {"remove", "remove_entry", "OccupiedEntry::remove_entry",
                         "Entry::remove_entry", "Entry::remove"} ->
              [d EXCEPT ![b] = None]
         [] hist.op = "Entry::or_insert" ->
              IF IsSome(d[b]) THEN d ELSE [d EXCEPT ![b] = Some(hist.val)]
         [] hist.op = "Entry::and_modify" ->
              IF IsSome(d[b]) THEN [d EXCEPT ![b] = Some(hist.val[d[b][1]])] ELSE d
         [] OTHER -> d

\* C22: the map agrees with a reference dictionary through every insert,
\* remove, entry operation and compact: a new map stands for the empty
\* dictionary, and after each call get and contains_key report, for every
\* byte string, what the dictionary reports after the same call: present
\* with the last value written exactly for the keys written and not since
\* removed, so a proper prefix or a proper extension of a stored key that was
\* not itself stored is absent.
C22_RefinesDictionary ==
    /\ Dict(new) = EmptyDict
    /\ hist.op # "idle" =>
         LET d == DictAfter(Dict(hist.pre))
         IN /\ Dict(map) = d
            /\ \A b \in PrefixBytes : contains_key(map, Key(b, 0)) <=> IsSome(d[b])

\* A value written over an earlier one under a two-byte key whose one-byte
\* prefix has a node and no item.
C22_Witness ==
    /\ hist.op = "insert"
    /\ Len(as_ref(hist.arg)) = 2
    /\ IsSome(get(hist.pre, hist.arg))
    /\ get(hist.pre, hist.arg) # Some(hist.val)
    /\ ~contains_key(map, Key(SubSeq(as_ref(hist.arg), 1, 1), 0))
    /\ ~contains_key(map, Key(Append(as_ref(hist.arg), 0), 0))

\* C23: every iterator is fused: when its last next() returned None, another
\* next() returns None again and leaves the iterator, its len counter
\* included, exactly as it was; the same holds for the key, value and set
\* projections wrapped around it.
C23_Fused ==
    /\ (hist.op = "Iter::next" /\ IsNone(hist.ret)) =>
         LET it == hist.arg
         IN /\ Iter_next(it) = [iter |-> it, ret |-> None]
            /\ Keys_next([iter |-> it]) = [iter |-> [iter |-> it], ret |-> None]
            /\ Values_next([iter |-> it]) = [iter |-> [iter |-> it], ret |-> None]
            /\ SetIter_next([keys |-> [iter |-> it]])
                 = [iter |-> [keys |-> [iter |-> it]], ret |-> None]
    /\ (hist.op = "IntoIter::next" /\ IsNone(hist.ret)) =>
         LET it == hist.arg
         IN /\ IntoIter_next(it) = [iter |-> it, ret |-> None]
            /\ IntoKeys_next([iter |-> it]) = [iter |-> [iter |-> it], ret |-> None]
            /\ IntoValues_next([iter |-> it]) = [iter |-> [iter |-> it], ret |-> None]
            /\ SetIntoIter_next([keys |-> [iter |-> it]])
                 = [iter |-> [keys |-> [iter |-> it]], ret |-> None]
    /\ (hist.op = "NodeIter::next" /\ IsNone(hist.ret)) =>
         LET it == hist.arg
         IN /\ NodeIter_next(it) = [iter |-> it, ret |-> None]
            /\ SetPrefixIter_next([iter |-> it]) = [iter |-> [iter |-> it], ret |-> None]
    /\ (hist.op = "NodeIntoIter::next" /\ IsNone(hist.ret)) =>
         LET it == hist.arg
         IN /\ NodeIntoIter_next(it) = [iter |-> it, ret |-> None]
            /\ SetIntoPrefixIter_next([iter |-> it]) = [iter |-> [iter |-> it], ret |-> None]

\* A prefix iterator over a subtree of two entries, exhausted by a next()
\* that returned None.
C23_Witness ==
    /\ hist.op = "NodeIter::next"
    /\ IsNone(hist.ret)
    /\ Len(PrefixSeq(hist.pre, hist.val)) = 2
    /\ as_ref(hist.val) # <<>>

\* Every node of the subtree, the root of the subtree included.
RECURSIVE Nodes(_)
Nodes(node) == {node} \cup UNION {Nodes(node.children[i]) : i \in 1..Len(node.children)}

\* C24: in every reachable state the children of every node are strictly
\* increasing in key_fragment, and the binary search over them answers Ok
\* with the child's index exactly for the bytes some child is labelled with.
C24_ChildrenSorted ==
    \A node \in Nodes(map.root) :
        /\ \A i \in 1..(Len(node.children) - 1) :
             node.children[i].key_fragment < node.children[i + 1].key_fragment
        /\ \A byte \in Bytes :
             LET r == binary_search_by_key(node.children, byte)
             IN /\ r.ok <=> \E i \in 1..Len(node.children) :
                                node.children[i].key_fragment = byte
                /\ r.ok => node.children[r.index].key_fragment = byte

\* An insert that put a child labelled 0 in front of an existing child
\* labelled 1, below the root and below a child of the root.
C24_Witness ==
    /\ hist.op = "insert"
    /\ Len(hist.pre.root.children) = 1
    /\ hist.pre.root.children[1].key_fragment = 1
    /\ Len(map.root.children) = 2
    /\ \E node \in Nodes(map.root) : node # map.root /\ Len(node.children) = 2

\* The items of the subtree, each with the path of key_fragments that leads
\* from the root of the subtree to the node holding it.
RECURSIVE ItemsWithPath(_)
ItemsWithPath(node) ==
    {<<(<<>>), node.item[i]>> : i \in 1..Len(node.item)}
    \cup UNION {{<<(<<node.children[i].key_fragment>> \o pi[1]), pi[2]>> :
                   pi \in ItemsWithPath(node.children[i])} : i \in 1..Len(node.children)}

\* C25: in every reachable state every stored item sits on the node whose
\* path of key_fragments from the root spells the bytes of the item's key;
\* so no two items have the same key bytes.
C25_ItemOnItsPath ==
    LET stored == ItemsWithPath(map.root)
    IN /\ \A pi \in stored : as_ref(pi[2][1]) = pi[1]
       /\ \A pi, qi \in stored : as_ref(pi[2][1]) = as_ref(qi[2][1]) => pi = qi
       /\ Cardinality(stored) = map.len

\* An item just written through a vacant entry onto a node two levels below
\* the root, in a map that also holds an item on the root.
C25_Witness ==
    /\ hist.op = "VacantEntry::insert"
    /\ Len(as_ref(hist.arg)) = 2
    /\ <<as_ref(hist.arg), <<hist.arg, hist.val>>>> \in ItemsWithPath(map.root)
    /\ IsSome(map.root.item)

\* The paths a tree must have to hold items on the paths P: their prefixes.
PrefixClosure(P) == {<<>>} \cup UNION {{SubSeq(p, 1, n) : n \in 0..Len(p)} : p \in P}

\* C26 as stated: every call other than compact, intersection included,
\* leaves every node path of the tree in place.
C26_AsStated ==
    hist.op \notin {"idle", "compact"} =>
        NodePaths(hist.pre.root) \subseteq NodePaths(map.root)

\* C26: insert, remove, remove_entry, entry and its methods, union,
\* difference and symmetric difference leave every node path of the tree in
\* place, and remove and remove_entry change nothing but the item and len;
\* compact only takes node paths away; intersection, which collects the
\* removed entries into a new map, leaves exactly the node paths that lead to
\* a surviving entry.
C26_OnlyCompactAndIntersectionRemoveNodes ==
    /\ hist.op \notin {"idle", "compact", "intersection"} =>
         NodePaths(hist.pre.root) \subseteq NodePaths(map.root)
    /\ hist.op \in {"remove", "remove_entry", "difference"} =>
         /\ NodePaths(map.root) = NodePaths(hist.pre.root)
         /\ ItemPaths(map.root) \subseteq ItemPaths(hist.pre.root)
    /\ hist.op = "compact" => NodePaths(map.root) \subseteq NodePaths(hist.pre.root)
    /\ hist.op = "intersection" =>
         /\ ItemPaths(map.root) \subseteq ItemPaths(hist.pre.root)
         /\ NodePaths(map.root) = PrefixClosure(ItemPaths(map.root))

\* A remove that cleared the item of a leaf: the leaf is still in the tree,
\* and a compact would take it away.
C26_Witness ==
    /\ hist.op = "remove"
    /\ IsSome(hist.ret)
    /\ as_ref(hist.arg) \in NodePaths(map.root)
    /\ Len(as_ref(hist.arg)) = 2
    /\ as_ref(hist.arg) \notin NodePaths(compact(map.root).node)

\* C27: right after compact() every node other than the root holds an item
\* or has a descendant that does; every node that held an item or had such a
\* descendant before is still there, with the items where they were; and the
\* root is there, the bare root when the map is empty.
C27_CompactLeavesUsefulNodes ==
    hist.op = "compact" =>
        LET pre == hist.pre
            Useful(m, p) == \E q \in ItemPaths(m.root) : StartsWith(q, p)
        IN /\ \A p \in NodePaths(map.root) \ {<<>>} : Useful(map, p)
           /\ \A p \in NodePaths(pre.root) : Useful(pre, p) => p \in NodePaths(map.root)
           /\ ItemsWithPath(map.root) = ItemsWithPath(pre.root)
           /\ map.root.key_fragment = pre.root.key_fragment
           /\ map.root.item = pre.root.item
           /\ pre.len = 0 => map = new

\* A compact() of an empty map whose tree had nodes down to the second level.
C27_Witness ==
    /\ hist.op = "compact"
    /\ hist.pre.len = 0
    /\ \E p \in NodePaths(hist.pre.root) : Len(p) = 2
    /\ map.root = NodeRoot

\* The number of nodes of the subtree, counted one by one.
RECURSIVE CountNodes(_), CountNodesOf(_)
CountNodesOf(children) ==
    IF children = <<>> THEN 0 ELSE CountNodes(Head(children)) + CountNodesOf(Tail(children))

CountNodes(node) == 1 + CountNodesOf(node.children)

\* C28: entry(k) adds to the tree exactly the nodes the prefixes of k were
\* lacking, each without an item, and changes nothing else; a second
\* entry(k) right after it returns the same entry and leaves the tree
\* exactly as it is: no node is duplicated and the root's key_fragment is
\* not modified.
C28_EntryIdempotent ==
    hist.op = "entry" =>
        LET k == hist.arg
            pre == hist.pre
            second == entry(map, k)
        IN /\ NodePaths(map.root) = NodePaths(pre.root) \cup PrefixClosure({as_ref(k)})
           /\ CountNodes(map.root) = Cardinality(NodePaths(map.root))
           /\ ItemsWithPath(map.root) = ItemsWithPath(pre.root)
           /\ map.len = pre.len
           /\ map.root.key_fragment = pre.root.key_fragment
           /\ second.map = map
           /\ second.entry = ent[1]
           /\ search_or_insert(map.root, as_ref(k)).node = map.root

\* An entry for a two-byte key none of whose non-empty prefixes had a node,
\* in a map that holds an entry.
C28_Witness ==
    /\ hist.op = "entry"
    /\ Len(as_ref(hist.arg)) = 2
    /\ Cardinality(NodePaths(map.root) \ NodePaths(hist.pre.root)) = 2
    /\ map.len >= 1
    /\ ent[1].kind = "Vacant"

\* The sub-iterator frames an iterator holds (the chain of curr_child_iter),
\* and the height of a subtree.
RECURSIVE FrameCount(_)
FrameCount(it) ==
    IF IsNone(it.curr_child_iter) THEN 0 ELSE 1 + FrameCount(it.curr_child_iter[1])

RECURSIVE Height(_)
Height(node) ==
    IF node.children = <<>> THEN 0
    ELSE 1 + CHOOSE h \in {Height(node.children[i]) : i \in 1..Len(node.children)} :
                 \A i \in 1..Len(node.children) : Height(node.children[i]) <= h

\* The number of entries the iteration of `node` yields before it reaches
\* the child with index idx: the node's own item and the items of the
\* children before it.
EntriesBefore(node, idx) ==
    (IF IsSome(node.item) THEN 1 ELSE 0) + CountItemsOf(SubSeq(node.children, 1, idx - 1))

\* The child of `node` the frame of iterator `it` belongs to.
CurrentChild(node, it) == Len(node.children) - Len(it.children_iter)

\* Every frame belongs to a child the iteration has reached: the entries
\* preceding the child are among the `yielded` ones.
RECURSIVE FramesOnlyForReached(_, _, _)
FramesOnlyForReached(node, it, yielded) ==
    IsSome(it.curr_child_iter) =>
        LET idx == CurrentChild(node, it)
            before == EntriesBefore(node, idx)
        IN /\ yielded >= before
           /\ FramesOnlyForReached(node.children[idx], it.curr_child_iter[1], yielded - before)

\* Every node with children has a frame from the creation of its iterator
\* on: for the first child as long as the iteration has not reached it, the
\* frame then being as Node::iter or Node::into_iter created it, and else
\* for a child the iteration has reached.
RECURSIVE FramesFirstEager(_, _, _, _)
FramesFirstEager(node, it, yielded, owning) ==
    /\ IsNone(it.curr_child_iter) <=> node.children = <<>>
    /\ IsSome(it.curr_child_iter) =>
        LET idx == CurrentChild(node, it)
            before == EntriesBefore(node, idx)
        IN IF yielded < before
           THEN /\ idx = 1
                /\ yielded = 0
                /\ it.curr_child_iter[1] = IF owning THEN Node_into_iter(node.children[1])
                                           ELSE Node_iter(node.children[1])
           ELSE FramesFirstEager(node.children[idx], it.curr_child_iter[1],
                                 yielded - before, owning)

\* C29 as stated: at every point of an iteration no frame exists for a child
\* before all entries preceding the child have been yielded.
C29_AsStated ==
    hist.op \in {"iter", "Iter::next", "into_iter", "IntoIter::next"} =>
        FramesOnlyForReached(hist.pre.root, hist.arg.iter, hist.val)

\* C29: at every point of an iteration each level holds one frame, for its
\* current child; the frame of a first child exists from the creation of the
\* iterator, before the entries preceding that child have been yielded, and
\* the frame of a later child only once the iteration has reached it; the
\* number of frames never exceeds the height of the tree.
C29_FramesFirstChildEager ==
    /\ hist.op \in {"iter", "Iter::next"} =>
         /\ FramesFirstEager(hist.pre.root, hist.arg.iter, hist.val, FALSE)
         /\ FrameCount(hist.arg.iter) <= Height(hist.pre.root)
    /\ hist.op \in {"into_iter", "IntoIter::next"} =>
         /\ FramesFirstEager(hist.pre.root, hist.arg.iter, hist.val, TRUE)
         /\ FrameCount(hist.arg.iter) <= Height(hist.pre.root)

\* An iteration that has moved on from a first child to its sibling, on a
\* tree of height 2 whose root holds an item.
C29_Witness ==
    /\ hist.op = "Iter::next"
    /\ IsSome(hist.pre.root.item)
    /\ Height(hist.pre.root) = 2
    /\ CurrentChild(hist.pre.root, hist.arg.iter) = 2
    /\ FrameCount(hist.arg.iter) = 2

\* C30: the owning and the borrowing iterators agree: on every reachable map
\* and for every prefix p, into_prefix_iter(p) yields the same sequence of
\* (key, value) pairs as prefix_iter(p), and for the empty prefix both yield
\* the sequence of the whole-tree iterators iter() and into_iter().
C30_OwningAgreesWithBorrowing ==
    hist.op = "into_prefix_iter" =>
        LET owned == CollectInto(hist.arg)
            borrowed == Collect(prefix_iter(hist.pre, hist.val))
        IN /\ owned = borrowed
           /\ as_ref(hist.val) = <<>> =>
                /\ owned = CollectIter(iter(hist.pre))
                /\ owned = CollectIntoIter(into_iter(hist.pre))

\* into_prefix_iter has been called with a non-empty prefix that leads to a
\* node with an item of its own and selects several, but not all, entries.
C30_Witness ==
    /\ hist.op = "into_prefix_iter"
    /\ as_ref(hist.val) # <<>>
    /\ IsSome(hist.arg.item)
    /\ Len(CollectInto(hist.arg)) >= 2
    /\ Len(CollectInto(hist.arg)) < hist.pre.len

\* C31: no internal assertion and no counter underflow is reachable: the
\* slot of an OccupiedEntry holds an item for as long as the entry exists, so
\* expect("item in occupied entry") never fires; the slot of a VacantEntry is
\* empty until its insert; and the decrements of len in remove_entry,
\* OccupiedEntry::remove_entry, Iter::next and IntoIter::next are never
\* applied to 0.
C31_NoAssertionReachable ==
    /\ IsSome(ent) /\ ent[1].kind = "Occupied" => ~OccupiedEntry_expect_panics(map, ent[1])
    /\ IsSome(ent) /\ ent[1].kind = "Vacant" => IsNone(Deref(map.root, ent[1].slot).item)
    /\ /\ hist.op \in {"remove_entry", "remove", "OccupiedEntry::remove_entry",
                        "Entry::remove_entry", "Entry::remove"}
       /\ IsSome(hist.ret)
       => hist.pre.len > 0 /\ map.len = hist.pre.len - 1
    /\ hist.op \in {"Iter::next", "IntoIter::next"} /\ IsSome(hist.ret) => hist.arg.len >= 0
    /\ map.len >= 0

\* An occupied entry that is still alive after a value was stored through it,
\* on a map of one entry: removing through it brings len from 1 to 0.
C31_Witness ==
    /\ IsSome(ent)
    /\ ent[1].kind = "Occupied"
    /\ hist.op = "OccupiedEntry::insert"
    /\ map.len = 1

\* The node the prefix of the iteration in hist leads to, if there is one.
SubtreeOf(h) == search(h.pre.root, as_ref(h.val.prefix))

\* C32: every next() call on a subtree iterator terminates, also on trees
\* with consecutive item-less subtrees, because each retry in next() takes
\* one child out of children_iter: a call makes at most as many retries as
\* the subtree has nodes, and a call that is running returns.  A full
\* iteration reaches exhaustion, and has then yielded exactly as many items
\* as the subtree holds.
C32_NextTerminates ==
    /\ [](hist.op \in {"created", "running", "returned"} =>
            LET sub == SubtreeOf(hist)
                nodes == IF IsNone(sub) THEN 0 ELSE CountNodes(sub[1])
                items == IF IsNone(sub) THEN 0 ELSE CountItems(sub[1])
            IN /\ hist.arg.retries <= nodes
               /\ hist.val.yielded <= items
               /\ hist.op = "returned" /\ IsNone(hist.ret) => hist.val.yielded = items)
    /\ (hist.op = "running") ~> (hist.op = "returned")
    /\ (hist.op = "created") ~> (hist.op = "returned" /\ IsNone(hist.ret))

\* A next() call that returned an item after passing two consecutive
\* item-less subtrees, each by a retry.
C32_Witness ==
    /\ hist.op = "returned"
    /\ IsSome(hist.ret)
    /\ hist.arg.retries >= 2
    /\ hist.val.yielded = 1

\* C33: lookups and failed removals do not change the tree: get, get_entry,
\* contains_key, prefix_iter, iter, and remove / remove_entry of an absent
\* key, whether or not a node path for it exists, leave the node tree and len
\* exactly as they were; unlike entry(), they never create nodes.
C33_LookupsLeaveTree ==
    /\ hist.op \in {"get", "get_entry", "contains_key", "prefix_iter", "iter"} =>
         map = hist.pre
    /\ hist.op \in {"remove", "remove_entry"} /\ IsNone(hist.ret) =>
         /\ map = hist.pre
         /\ NodePaths(map.root) = NodePaths(hist.pre.root)
    /\ hist.op = "entry" /\ IsNone(search(hist.pre.root, as_ref(hist.arg))) =>
         NodePaths(map.root) # NodePaths(hist.pre.root)

\* remove_entry of an absent key for which no node path exists has returned
\* None on a map that holds entries and an item-less node.
C33_Witness ==
    /\ hist.op = "remove_entry"
    /\ IsNone(hist.ret)
    /\ IsNone(search(hist.pre.root, as_ref(hist.arg)))
    /\ hist.pre.len >= 1
    /\ (NodePaths(map.root) \ ItemPaths(map.root)) \ {<<>>} # {}

====
